---- MODULE Spec2Model ----
(***************************************************************************)
(* CE Tracker: the designation requirement calculators of                  *)
(* designation_helpers.py over the CE record store, with the clock that    *)
(* datetime.now() reads and the add_ce request that fills the store.       *)
(*                                                                         *)
(* Dates are triples <<year, month, day>>; text fields that the code       *)
(* inspects (title, category) are sequences of one-character strings;      *)
(* hours are whole numbers (floats with an exact integer value);           *)
(* percentages are exact fractions <<numerator, denominator>>.             *)
(***************************************************************************)
EXTENDS Integers, Sequences, FiniteSets, TLC

VARIABLES now, users, designations, records, pending, call, result,
          cookie, response, clock, issued

vars == <<now, users, designations, records, pending, call, result,
          cookie, response, clock, issued>>

\* The actions constrain the store and the call history. What the browser
\* holds (its session cookie and the last response it got), the time of day
\* and the values uuid4 has returned are constrained by the specification that
\* uses an action: Quiet in the runs that do not observe them.
Quiet == UNCHANGED <<cookie, response, clock, issued>>

----------------------------------------------------------------------------
(* Bounds of the model *)

\* most CE records in the store (add_ce stops there)
MaxRecords == 2

\* number of calendar years the clock runs through
NumYears == 4

\* requests of the account pages that run at the same time
MaxInFlight == 2

\* most rows in the table of assignments (a commit that would pass it waits)
MaxRows == 2

\* longest list of assignments handed to calculate_designation_requirements
MaxAssignments == 3

\* the time of day of the token runs advances up to MaxClock half-hours
MaxClock == 4

\* uuid4 is called at most MaxTokens times in the token runs
MaxTokens == 2

----------------------------------------------------------------------------
(* Calendar arithmetic of datetime.date *)

NoDate == <<0, 0, 0>>

\* a text column that holds NULL
NoText == <<"None">>

\* text or ''
OrEmpty(text) == IF text = NoText THEN <<>> ELSE text

IsLeap(y) == (y % 4 = 0 /\ y % 100 # 0) \/ y % 400 = 0

DaysInMonth(y, m) ==
    IF m \in {1, 3, 5, 7, 8, 10, 12} THEN 31
    ELSE IF m \in {4, 6, 9, 11} THEN 30
    ELSE IF IsLeap(y) THEN 29 ELSE 28

\* datetime(y, m, d) raises ValueError unless this holds
ValidDate(y, m, d) ==
    /\ y \in 1..9999
    /\ m \in 1..12
    /\ d \in 1..DaysInMonth(y, m)

DaysBeforeYear(y) ==
    LET p == y - 1 IN p * 365 + (p \div 4) - (p \div 100) + (p \div 400)

DaysBeforeMonth(y, m) ==
    <<0, 31, 59, 90, 120, 151, 181, 212, 243, 273, 304, 334>>[m]
        + (IF m > 2 /\ IsLeap(y) THEN 1 ELSE 0)

\* date.toordinal(); a difference of two dates is (a - b).days
ToOrdinal(d) == DaysBeforeYear(d[1]) + DaysBeforeMonth(d[1], d[2]) + d[3]

\* a <= b on dates
DateLE(a, b) ==
    \/ a[1] < b[1]
    \/ a[1] = b[1] /\ a[2] < b[2]
    \/ a[1] = b[1] /\ a[2] = b[2] /\ a[3] <= b[3]

\* d - timedelta(days=1)
PrevDay(d) ==
    IF d[3] > 1 THEN <<d[1], d[2], d[3] - 1>>
    ELSE IF d[2] > 1 THEN <<d[1], d[2] - 1, DaysInMonth(d[1], d[2] - 1)>>
    ELSE <<d[1] - 1, 12, 31>>

\* the calendar day after d
NextDay(d) ==
    IF d[3] < DaysInMonth(d[1], d[2]) THEN <<d[1], d[2], d[3] + 1>>
    ELSE IF d[2] < 12 THEN <<d[1], d[2] + 1, 1>>
    ELSE <<d[1] + 1, 1, 1>>

----------------------------------------------------------------------------
(* Text: str.lower() and the substring test "x in s" *)

LowerMap ==
    [A |-> "a", B |-> "b", C |-> "c", D |-> "d", E |-> "e", F |-> "f",
     G |-> "g", H |-> "h", I |-> "i", J |-> "j", K |-> "k", L |-> "l",
     M |-> "m", N |-> "n", O |-> "o", P |-> "p", Q |-> "q", R |-> "r",
     S |-> "s", T |-> "t", U |-> "u", V |-> "v", W |-> "w", X |-> "x",
     Y |-> "y", Z |-> "z"]

Lower(s) ==
    [i \in 1..Len(s) |-> IF s[i] \in DOMAIN LowerMap THEN LowerMap[s[i]] ELSE s[i]]

Contains(s, sub) ==
    \E i \in 1..(Len(s) - Len(sub) + 1) : SubSeq(s, i, i + Len(sub) - 1) = sub

\* str.upper() of one character: the German sharp s becomes two letters
UpperOf(c) ==
    IF c = "ß" THEN <<"S", "S">>
    ELSE IF \E k \in DOMAIN LowerMap : LowerMap[k] = c
         THEN <<CHOOSE k \in DOMAIN LowerMap : LowerMap[k] = c>>
         ELSE <<c>>

\* str.upper()
RECURSIVE Upper(_)
Upper(s) ==
    IF s = <<>> THEN <<>> ELSE UpperOf(Head(s)) \o Upper(Tail(s))

\* str.isalpha(): not empty and every character a letter
IsAlpha(s) ==
    /\ s # <<>>
    /\ \A i \in 1..Len(s) :
          \/ s[i] \in DOMAIN LowerMap
          \/ \E k \in DOMAIN LowerMap : LowerMap[k] = s[i]
          \/ s[i] = "ß"

\* str.strip()
RECURSIVE Strip(_)
Strip(s) ==
    IF s = <<>> THEN <<>>
    ELSE IF Head(s) = " " THEN Strip(Tail(s))
    ELSE IF s[Len(s)] = " " THEN Strip(SubSeq(s, 1, Len(s) - 1))
    ELSE s

EthicsWord == <<"e", "t", "h", "i", "c", "s">>

\* 'ethics' in (r.category or '').lower() or 'ethics' in (r.title or '').lower()
IsEthicsText(r) ==
    \/ Contains(Lower(r.category), EthicsWord)
    \/ Contains(Lower(r.title), EthicsWord)

----------------------------------------------------------------------------
(* Numbers: max, min, sums, and the float quotient earned / required * 100 *)

\* max(0, x) left out: the second argument is returned as it is
Max_NoFloor(a, b) == b

Max(a, b) == IF b > a THEN b ELSE a

Min(a, b) == IF b < a THEN b ELSE a

RECURSIVE GCD(_, _)
GCD(a, b) == IF b = 0 THEN a ELSE GCD(b, a % b)

Abs(n) == IF n < 0 THEN 0 - n ELSE n

\* the fraction n / d (d > 0) in lowest terms
Frac(n, d) ==
    LET g == GCD(Abs(n), d) IN <<n \div g, d \div g>>

FracLT(a, b) == a[1] * b[2] < b[1] * a[2]

FracMax(a, b) == IF FracLT(a, b) THEN b ELSE a

FracMin(a, b) == IF FracLT(b, a) THEN b ELSE a

\* Percentage without the upper clamp min(100, ...)
Percentage_NoCap(earned, required) ==
    FracMax(Frac(0, 1), Frac(earned * 100, required))

\* min(100, max(0, earned / required * 100))
Percentage(earned, required) ==
    FracMin(Frac(100, 1), FracMax(Frac(0, 1), Frac(earned * 100, required)))

RECURSIVE SumHours(_)
SumHours(rs) == IF rs = <<>> THEN 0 ELSE Head(rs).hours + SumHours(Tail(rs))

----------------------------------------------------------------------------
(* Return values of the calculators *)

\* a calculator returned None
None == [null |-> TRUE]

\* datetime(...) raised ValueError inside the calculator
Raised == [raised |-> "ValueError"]

\* the "user_designation" argument when it is None
NoDesignation ==
    [id |-> 0, user_id |-> 0, designation |-> "", birth_month |-> 0,
     state |-> <<>>, created_at |-> NoDate]

\* the "user" argument when there is none
NoUser == [id |-> 0, is_napfa_member |-> FALSE, napfa_join_date |-> NoDate]

\* the session cookie of a request: user_id 0 when the session has no
\* 'user_id', show_napfa_tracking "" when it has no 'show_napfa_tracking'
Session(user_id, show_napfa_tracking) ==
    [user_id |-> user_id, show_napfa_tracking |-> show_napfa_tracking]

NoSession == Session(0, "")

\* what a request answers: a redirect to an endpoint or a rendered template,
\* with the message it flashed ("" when it flashed none), or an abort with an
\* HTTP error
Redirect(endpoint, message) == [kind |-> "redirect", to |-> endpoint, flash |-> message]

Render(template, message) == [kind |-> "render", to |-> template, flash |-> message]

Abort(code) == [kind |-> "abort", to |-> code, flash |-> ""]

\* no request has been answered yet
NoResponse == [kind |-> "", to |-> "", flash |-> ""]

\* no calculator has been called yet; a call is recorded with the function
\* called (fn), its arguments (who and its id user, ud or the list uds; for
\* the dashboard request its session and its category parameter), the day it
\* began on (began) and the day it returned on (at), the number of CE records
\* the store held when it began (since) and when it returned (rows), and the
\* number of CE record queries the calculators sent to the store (reads)
NoCall ==
    [fn |-> "", user |-> 0, who |-> NoUser, ud |-> NoDesignation, uds |-> <<>>,
     session |-> NoSession, category |-> <<>>,
     began |-> NoDate, at |-> NoDate, since |-> 0, rows |-> 0, reads |-> 0]

\* a requirement result (a dict), as opposed to None
IsResult(r) == "total_required" \in DOMAIN r

\* the call ended in an exception
HasRaised(r) == "raised" \in DOMAIN r

----------------------------------------------------------------------------
(* The store *)

\* QueryRecords without filter_by(user_id=...)
QueryRecords_AnyUser(uid, period_start, period_end) ==
    SelectSeq(records, LAMBDA r :
        /\ DateLE(period_start, r.date_completed)
        /\ DateLE(r.date_completed, period_end))

\* CERecord.query.filter_by(user_id=uid).filter(date_completed >= period_start,
\*                                              date_completed <= period_end).all()
QueryRecords(uid, period_start, period_end) ==
    SelectSeq(records, LAMBDA r :
        /\ r.user_id = uid
        /\ DateLE(period_start, r.date_completed)
        /\ DateLE(r.date_completed, period_end))

\* the rows of a query as the db session of the request hands them over:
\* for a row whose object the request still holds (loaded: the records the
\* dashboard keeps for its page) the session gives that object, with the
\* attribute values it was loaded with; every other row is read from the table
Instances(loaded, rows) ==
    [i \in 1..Len(rows) |->
        IF \E j \in 1..Len(loaded) : loaded[j].id = rows[i].id
        THEN loaded[CHOOSE j \in 1..Len(loaded) : loaded[j].id = rows[i].id]
        ELSE rows[i]]

\* the id the database gives the next row of a table
NextId(table) ==
    IF table = <<>> THEN 1
    ELSE 1 + (CHOOSE m \in {table[i].id : i \in 1..Len(table)} :
                 \A j \in 1..Len(table) : table[j].id <= m)

\* the number of the database session of a new request: every request works
\* in a session of its own, so two requests in flight are two transactions
\* even when they carry the same statements
DbSession ==
    CHOOSE n \in 1..MaxInFlight :
        \A t \in pending : "nr" \in DOMAIN t => t.nr # n

\* the requests in flight with request t replaced by what it has become
Continued(t, after) == (pending \ {t}) \cup {after}

\* no request is in flight
Settled == pending = {}

\* no request in flight is between two of its queries
Between == \A t \in pending : "at" \in DOMAIN t => t.at = "commit"

----------------------------------------------------------------------------
(* Period resolvers *)

\* [Jan 1, Dec 31] of the current year
CalendarYearPeriod ==
    <<<<now[1], 1, 1>>, <<now[1], 12, 31>>>>

\* OddYearCyclePeriod with the cycle starting on the even year
OddYearCyclePeriod_EvenStart ==
    LET current_year == now[1]
        cycle_start == IF current_year % 2 = 0 THEN current_year ELSE current_year - 1
    IN <<<<cycle_start, 1, 1>>, <<cycle_start + 1, 12, 31>>>>

\* two calendar years starting with an odd year
OddYearCyclePeriod ==
    LET current_year == now[1]
        cycle_start == IF current_year % 2 = 0 THEN current_year - 1 ELSE current_year
    IN <<<<cycle_start, 1, 1>>, <<cycle_start + 1, 12, 31>>>>

\* CfpPeriod with the birth month itself still counted as "before"
CfpPeriod_MonthIncluded(birth_month) ==
    LET current_year == now[1] IN
    IF now[2] <= birth_month
    THEN <<<<current_year - 2, birth_month, 1>>,
           PrevDay(<<current_year, birth_month, 1>>)>>
    ELSE <<<<current_year - 1, birth_month, 1>>,
           PrevDay(<<current_year + 1, birth_month, 1>>)>>

\* the 2-year window anchored to the first day of the birth month
CfpPeriod(birth_month) ==
    LET current_year == now[1] IN
    IF now[2] < birth_month
    THEN <<<<current_year - 2, birth_month, 1>>,
           PrevDay(<<current_year, birth_month, 1>>)>>
    ELSE <<<<current_year - 1, birth_month, 1>>,
           PrevDay(<<current_year + 1, birth_month, 1>>)>>

\* EaPeriod with the cycle starting on the current year
EaPeriod_FromCurrentYear ==
    <<<<now[1], 1, 1>>, <<now[1] + 2, 12, 31>>>>

\* three calendar years starting with a multiple of 3
EaPeriod ==
    LET cycle_start_year == (now[1] \div 3) * 3
    IN <<<<cycle_start_year, 1, 1>>, <<cycle_start_year + 2, 12, 31>>>>

\* int(((current_date - designation_date).days / 365.25) // 2)
PeriodNumber(designation_date) ==
    ((ToOrdinal(now) - ToOrdinal(designation_date)) * 100) \div 73050

\* NapfaCycleStartYear with the parity of the odd-year cycles
NapfaCycleStartYear_Odd ==
    IF now[1] % 2 = 0 THEN now[1] - 1 ELSE now[1]

\* the two years of the NAPFA cycle, the first one even
NapfaCycleStartYear ==
    IF now[1] % 2 = 0 THEN now[1] ELSE now[1] - 1

----------------------------------------------------------------------------
(* Requirement aggregation *)

\* the result of a calculator that has a total requirement only
TotalOnlyResult(code, required, user, period, loaded) ==
    LET ce_records == Instances(loaded, QueryRecords(user.id, period[1], period[2]))
        total_hours == SumHours(ce_records)
    IN [designation |-> code,
        total_required |-> required,
        total_earned |-> total_hours,
        total_remaining |-> Max(0, required - total_hours),
        total_percentage |-> Percentage(total_hours, required),
        period_start |-> period[1],
        period_end |-> period[2],
        is_complete |-> total_hours >= required]

\* EthicsResult with is_complete decided by the total alone
EthicsResult_TotalDecides(code, required, ethics_required, user, period, loaded) ==
    LET ce_records == Instances(loaded, QueryRecords(user.id, period[1], period[2]))
        total_hours == SumHours(ce_records)
        ethics_hours == SumHours(SelectSeq(ce_records, IsEthicsText))
    IN [designation |-> code,
        total_required |-> required,
        total_earned |-> total_hours,
        total_remaining |-> Max(0, required - total_hours),
        total_percentage |-> Percentage(total_hours, required),
        ethics_required |-> ethics_required,
        ethics_earned |-> Min(ethics_hours, ethics_required),
        ethics_remaining |-> Max(0, ethics_required - ethics_hours),
        ethics_percentage |-> Percentage(ethics_hours, ethics_required),
        period_start |-> period[1],
        period_end |-> period[2],
        is_complete |-> total_hours >= required]

\* EthicsResult with the ethics hours selected by the is_ethics_course flag
EthicsResult_ByFlag(code, required, ethics_required, user, period, loaded) ==
    LET ce_records == Instances(loaded, QueryRecords(user.id, period[1], period[2]))
        total_hours == SumHours(ce_records)
        ethics_hours ==
            SumHours(SelectSeq(ce_records, LAMBDA r : r.is_ethics_course))
    IN [designation |-> code,
        total_required |-> required,
        total_earned |-> total_hours,
        total_remaining |-> Max(0, required - total_hours),
        total_percentage |-> Percentage(total_hours, required),
        ethics_required |-> ethics_required,
        ethics_earned |-> Min(ethics_hours, ethics_required),
        ethics_remaining |-> Max(0, ethics_required - ethics_hours),
        ethics_percentage |-> Percentage(ethics_hours, ethics_required),
        period_start |-> period[1],
        period_end |-> period[2],
        is_complete |-> total_hours >= required /\ ethics_hours >= ethics_required]

\* the result of a calculator with a total and an ethics requirement
EthicsResult(code, required, ethics_required, user, period, loaded) ==
    LET ce_records == Instances(loaded, QueryRecords(user.id, period[1], period[2]))
        total_hours == SumHours(ce_records)
        ethics_hours == SumHours(SelectSeq(ce_records, IsEthicsText))
    IN [designation |-> code,
        total_required |-> required,
        total_earned |-> total_hours,
        total_remaining |-> Max(0, required - total_hours),
        total_percentage |-> Percentage(total_hours, required),
        ethics_required |-> ethics_required,
        ethics_earned |-> Min(ethics_hours, ethics_required),
        ethics_remaining |-> Max(0, ethics_required - ethics_hours),
        ethics_percentage |-> Percentage(ethics_hours, ethics_required),
        period_start |-> period[1],
        period_end |-> period[2],
        is_complete |-> total_hours >= required /\ ethics_hours >= ethics_required]

----------------------------------------------------------------------------
(* The calculators *)

calculate_cfp_requirements(user, user_designation, loaded) ==
    IF \/ user_designation = NoDesignation
       \/ user_designation.designation # "CFP"
       \/ user_designation.birth_month = 0
    THEN None
    ELSE EthicsResult("CFP", 30, 2, user, CfpPeriod(user_designation.birth_month), loaded)

calculate_cpa_requirements(user, user_designation, loaded) ==
    IF user_designation = NoDesignation \/ user_designation.designation # "CPA"
    THEN None
    ELSE [state |-> user_designation.state]
            @@ TotalOnlyResult("CPA", 40, user, CalendarYearPeriod, loaded)

calculate_ea_requirements(user, user_designation, loaded) ==
    IF user_designation = NoDesignation \/ user_designation.designation # "EA"
    THEN None
    ELSE
        LET period == EaPeriod
            ce_records == Instances(loaded, QueryRecords(user.id, period[1], period[2]))
            current_year_start == <<now[1], 1, 1>>
            current_year_end == <<now[1], 12, 31>>
            current_year_records ==
                SelectSeq(ce_records, LAMBDA r :
                    /\ DateLE(current_year_start, r.date_completed)
                    /\ DateLE(r.date_completed, current_year_end))
            total_hours == SumHours(ce_records)
            current_year_hours == SumHours(current_year_records)
            ethics_hours == SumHours(SelectSeq(ce_records, IsEthicsText))
        IN [designation |-> "EA",
            total_required |-> 72,
            total_earned |-> total_hours,
            total_remaining |-> Max(0, 72 - total_hours),
            total_percentage |-> Percentage(total_hours, 72),
            yearly_minimum |-> 16,
            current_year_hours |-> current_year_hours,
            yearly_percentage |-> Percentage(current_year_hours, 16),
            ethics_required |-> 2,
            ethics_earned |-> Min(ethics_hours, 2),
            ethics_remaining |-> Max(0, 2 - ethics_hours),
            ethics_percentage |-> Percentage(ethics_hours, 2),
            period_start |-> period[1],
            period_end |-> period[2],
            is_complete |-> /\ total_hours >= 72
                            /\ current_year_hours >= 16
                            /\ ethics_hours >= 2]

\* Shared logic for CEP and ECA
calculate_cepi_requirements(user, user_designation, designation_name, loaded) ==
    IF \/ user_designation = NoDesignation
       \/ user_designation.designation # designation_name
    THEN None
    ELSE
        LET current_date == now
            designation_date ==
                IF user_designation.created_at # NoDate
                THEN user_designation.created_at ELSE current_date
            period_number == PeriodNumber(designation_date)
            start_year == designation_date[1] + period_number * 2
            end_year == designation_date[1] + (period_number + 1) * 2
        IN  IF \/ ~ValidDate(start_year, designation_date[2], designation_date[3])
               \/ ~ValidDate(end_year, designation_date[2], designation_date[3])
            THEN Raised
            ELSE
                LET period_start == <<start_year, designation_date[2], designation_date[3]>>
                    computed_end ==
                        PrevDay(<<end_year, designation_date[2], designation_date[3]>>)
                    period_end ==
                        IF ~DateLE(computed_end, current_date)
                        THEN current_date ELSE computed_end
                IN  TotalOnlyResult(designation_name, 30, user,
                                    <<period_start, period_end>>, loaded)
                        @@ [admin_fee |-> 250, volunteer_hours_required |-> 15]

calculate_cep_requirements(user, user_designation, loaded) ==
    calculate_cepi_requirements(user, user_designation, "CEP", loaded)

calculate_eca_requirements(user, user_designation, loaded) ==
    calculate_cepi_requirements(user, user_designation, "ECA", loaded)

calculate_cfa_requirements(user, user_designation, loaded) ==
    IF user_designation = NoDesignation \/ user_designation.designation # "CFA"
    THEN None
    ELSE TotalOnlyResult("CFA", 20, user, CalendarYearPeriod, loaded)

calculate_clu_requirements(user, user_designation, loaded) ==
    IF user_designation = NoDesignation \/ user_designation.designation # "CLU"
    THEN None
    ELSE TotalOnlyResult("CLU", 30, user, OddYearCyclePeriod, loaded)

calculate_chfc_requirements(user, user_designation, loaded) ==
    IF user_designation = NoDesignation \/ user_designation.designation # "ChFC"
    THEN None
    ELSE TotalOnlyResult("ChFC", 30, user, OddYearCyclePeriod, loaded)

\* Shared logic for CIMA, CIMC and CPWA
calculate_iwi_requirements(user, user_designation, designation_name, required_hours, loaded) ==
    IF \/ user_designation = NoDesignation
       \/ user_designation.designation # designation_name
    THEN None
    ELSE TotalOnlyResult(designation_name, required_hours, user, OddYearCyclePeriod, loaded)

calculate_cima_requirements(user, ud, loaded) ==
    calculate_iwi_requirements(user, ud, "CIMA", 40, loaded)

calculate_cimc_requirements(user, ud, loaded) ==
    calculate_iwi_requirements(user, ud, "CIMC", 40, loaded)

calculate_cpwa_requirements(user, ud, loaded) ==
    calculate_iwi_requirements(user, ud, "CPWA", 40, loaded)

calculate_crps_requirements(user, user_designation, loaded) ==
    IF user_designation = NoDesignation \/ user_designation.designation # "CRPS"
    THEN None
    ELSE TotalOnlyResult("CRPS", 16, user, OddYearCyclePeriod, loaded)

calculate_ricp_requirements(user, user_designation, loaded) ==
    IF user_designation = NoDesignation \/ user_designation.designation # "RICP"
    THEN None
    ELSE TotalOnlyResult("RICP", 30, user, OddYearCyclePeriod, loaded)

calculate_cdfa_requirements(user, user_designation, loaded) ==
    IF user_designation = NoDesignation \/ user_designation.designation # "CDFA"
    THEN None
    ELSE TotalOnlyResult("CDFA", 15, user, CalendarYearPeriod, loaded)

calculate_aif_requirements(user, user_designation, loaded) ==
    IF user_designation = NoDesignation \/ user_designation.designation # "AIF"
    THEN None
    ELSE TotalOnlyResult("AIF", 6, user, CalendarYearPeriod, loaded)

calculate_iar_requirements(user, user_designation, loaded) ==
    IF user_designation = NoDesignation \/ user_designation.designation # "IAR"
    THEN None
    ELSE EthicsResult("IAR", 12, 6, user, CalendarYearPeriod, loaded)

\* NapfaTier with the June 30 boundaries exclusive
NapfaTier_BeforeJune30(join_date, cycle_start_year, cycle_end_year) ==
    IF DateLE(join_date, <<cycle_start_year, 6, 29>>)
    THEN [total_required |-> 60, napfa_approved_required |-> 30]
    ELSE IF DateLE(join_date, <<cycle_start_year, 12, 31>>)
    THEN [total_required |-> 45, napfa_approved_required |-> 30]
    ELSE IF DateLE(join_date, <<cycle_end_year, 6, 29>>)
    THEN [total_required |-> 30, napfa_approved_required |-> 30]
    ELSE [total_required |-> 15, napfa_approved_required |-> 15]

\* the required totals for the tier the join date falls in
NapfaTier(join_date, cycle_start_year, cycle_end_year) ==
    IF DateLE(join_date, <<cycle_start_year, 6, 30>>)
    THEN [total_required |-> 60, napfa_approved_required |-> 30]
    ELSE IF DateLE(join_date, <<cycle_start_year, 12, 31>>)
    THEN [total_required |-> 45, napfa_approved_required |-> 30]
    ELSE IF DateLE(join_date, <<cycle_end_year, 6, 30>>)
    THEN [total_required |-> 30, napfa_approved_required |-> 30]
    ELSE [total_required |-> 15, napfa_approved_required |-> 15]

calculate_napfa_requirements(user, loaded) ==
    IF ~user.is_napfa_member \/ user.napfa_join_date = NoDate
    THEN None
    ELSE
        LET cycle_start_year == NapfaCycleStartYear
            cycle_end_year == cycle_start_year + 1
            cycle_start == <<cycle_start_year, 1, 1>>
            cycle_end == <<cycle_end_year, 12, 31>>
            tier == NapfaTier(user.napfa_join_date, cycle_start_year, cycle_end_year)
            total_required == tier.total_required
            napfa_approved_required == tier.napfa_approved_required
            ce_records == Instances(loaded, QueryRecords(user.id, cycle_start, cycle_end))
            total_hours == SumHours(ce_records)
            napfa_approved_hours ==
                SumHours(SelectSeq(ce_records, LAMBDA r : r.is_napfa_approved))
            ethics_completed ==
                \E i \in 1..Len(ce_records) : ce_records[i].is_ethics_course
        IN [total_required |-> total_required,
            total_earned |-> total_hours,
            total_remaining |-> Max(0, total_required - total_hours),
            total_percentage |->
                IF total_required # 0
                THEN Percentage(total_hours, total_required)
                ELSE Frac(0, 1),
            napfa_approved_required |-> napfa_approved_required,
            napfa_approved_earned |-> napfa_approved_hours,
            napfa_approved_remaining |->
                Max(0, napfa_approved_required - napfa_approved_hours),
            napfa_approved_percentage |->
                IF napfa_approved_required # 0
                THEN Percentage(napfa_approved_hours, napfa_approved_required)
                ELSE Frac(0, 1),
            ethics_required |-> TRUE,
            ethics_completed |-> ethics_completed,
            cycle_start |-> cycle_start,
            cycle_end |-> cycle_end,
            is_complete |-> /\ total_hours >= total_required
                            /\ napfa_approved_hours >= napfa_approved_required
                            /\ ethics_completed]

----------------------------------------------------------------------------
(* The registry *)

ALLOWED_DESIGNATIONS ==
    <<"CFP", "CFA", "CPA", "CLE", "CLU", "EA", "ChFC", "CIMA", "CIMC", "CPWA",
      "CRPS", "RICP", "CDFA", "AIF", "IAR", "CEP", "ECA">>

\* designation code -> name of its calculator
DESIGNATION_CALCULATORS ==
    [CFP |-> "calculate_cfp_requirements",
     CPA |-> "calculate_cpa_requirements",
     EA |-> "calculate_ea_requirements",
     CEP |-> "calculate_cep_requirements",
     ECA |-> "calculate_eca_requirements",
     CFA |-> "calculate_cfa_requirements",
     CLU |-> "calculate_clu_requirements",
     ChFC |-> "calculate_chfc_requirements",
     CIMA |-> "calculate_cima_requirements",
     CIMC |-> "calculate_cimc_requirements",
     CPWA |-> "calculate_cpwa_requirements",
     CRPS |-> "calculate_crps_requirements",
     RICP |-> "calculate_ricp_requirements",
     CDFA |-> "calculate_cdfa_requirements",
     AIF |-> "calculate_aif_requirements",
     IAR |-> "calculate_iar_requirements"]

\* calc(user, ud) for the calculator of that name
ApplyCalculator(calc, user, ud, loaded) ==
    CASE calc = "calculate_cfp_requirements" -> calculate_cfp_requirements(user, ud, loaded)
      [] calc = "calculate_cpa_requirements" -> calculate_cpa_requirements(user, ud, loaded)
      [] calc = "calculate_ea_requirements" -> calculate_ea_requirements(user, ud, loaded)
      [] calc = "calculate_cep_requirements" -> calculate_cep_requirements(user, ud, loaded)
      [] calc = "calculate_eca_requirements" -> calculate_eca_requirements(user, ud, loaded)
      [] calc = "calculate_cfa_requirements" -> calculate_cfa_requirements(user, ud, loaded)
      [] calc = "calculate_clu_requirements" -> calculate_clu_requirements(user, ud, loaded)
      [] calc = "calculate_chfc_requirements" -> calculate_chfc_requirements(user, ud, loaded)
      [] calc = "calculate_cima_requirements" -> calculate_cima_requirements(user, ud, loaded)
      [] calc = "calculate_cimc_requirements" -> calculate_cimc_requirements(user, ud, loaded)
      [] calc = "calculate_cpwa_requirements" -> calculate_cpwa_requirements(user, ud, loaded)
      [] calc = "calculate_crps_requirements" -> calculate_crps_requirements(user, ud, loaded)
      [] calc = "calculate_ricp_requirements" -> calculate_ricp_requirements(user, ud, loaded)
      [] calc = "calculate_cdfa_requirements" -> calculate_cdfa_requirements(user, ud, loaded)
      [] calc = "calculate_aif_requirements" -> calculate_aif_requirements(user, ud, loaded)
      [] calc = "calculate_iar_requirements" -> calculate_iar_requirements(user, ud, loaded)

\* the number of CERecord queries the calculator of that name sends for these
\* arguments: none when it returns at its guard or raises while it builds
\* the period, one otherwise
StoreReads(calc, user, ud) ==
    IF IsResult(ApplyCalculator(calc, user, ud, <<>>)) THEN 1 ELSE 0

\* the loop of calculate_designation_requirements over the assignments that
\* are left, with the results appended so far and the queries sent so far
RECURSIVE RequirementsLoop(_, _, _, _, _)
RequirementsLoop(user, user_designations, requirements, reads, loaded) ==
    IF user_designations = <<>>
    THEN [requirements |-> requirements, reads |-> reads]
    ELSE
        LET ud == Head(user_designations) IN
        IF ud.designation \notin DOMAIN DESIGNATION_CALCULATORS
        THEN RequirementsLoop(user, Tail(user_designations), requirements, reads, loaded)
        ELSE
            LET calc == DESIGNATION_CALCULATORS[ud.designation]
                \* the rest of the loop once the calculator has returned req
                Returned(req) ==
                    IF HasRaised(req)
                    THEN [raised |-> req.raised, reads |-> reads]
                    ELSE RequirementsLoop(user, Tail(user_designations),
                            IF req # None THEN Append(requirements, req)
                            ELSE requirements,
                            reads + (IF IsResult(req) THEN 1 ELSE 0), loaded)
            IN  \* the calculator is called once
                CHOOSE out \in {Returned(req) :
                                req \in {ApplyCalculator(calc, user, ud, loaded)}} : TRUE

----------------------------------------------------------------------------
(* Requests and the clock *)

\* float(text) for the texts the forms of the model carry
FloatTable ==
    [t \in {"-5", "0", "2", "16", "30", "72"} |->
        CASE t = "-5" -> 0 - 5
          [] t = "0" -> 0
          [] t = "2" -> 2
          [] t = "16" -> 16
          [] t = "30" -> 30
          [] t = "72" -> 72]

\* AddCE without the test for a session user
AddCE_Anyone(session, form) ==
    /\ Len(records) < MaxRecords
    /\ IF \/ form.title = <<>> \/ form.hours = "" \/ form.date_completed = NoDate
          \/ form.hours \notin DOMAIN FloatTable
          \/ ~ValidDate(form.date_completed[1], form.date_completed[2],
                        form.date_completed[3])
       THEN UNCHANGED records
       ELSE records' = Append(records,
                [id |-> NextId(records),
                 user_id |-> session.user_id,
                 title |-> form.title,
                 provider |-> OrEmpty(form.provider),
                 hours |-> FloatTable[form.hours],
                 date_completed |-> form.date_completed,
                 category |-> OrEmpty(form.category),
                 description |-> OrEmpty(form.description),
                 is_napfa_approved |-> form.is_napfa_approved = "on",
                 is_ethics_course |-> form.is_ethics_course = "on",
                 napfa_subject_area |-> OrEmpty(form.napfa_subject_area)])
    /\ UNCHANGED <<now, users, designations, pending, call, result>>

\* POST /add_ce with the given session and form
AddCE(session, form) ==
    /\ Len(records) < MaxRecords
    /\ IF \/ session.user_id = 0
          \/ form.title = <<>> \/ form.hours = "" \/ form.date_completed = NoDate
          \/ form.hours \notin DOMAIN FloatTable
          \/ ~ValidDate(form.date_completed[1], form.date_completed[2],
                        form.date_completed[3])
       THEN UNCHANGED records
       ELSE records' = Append(records,
                [id |-> NextId(records),
                 user_id |-> session.user_id,
                 title |-> form.title,
                 provider |-> OrEmpty(form.provider),
                 hours |-> FloatTable[form.hours],
                 date_completed |-> form.date_completed,
                 category |-> OrEmpty(form.category),
                 description |-> OrEmpty(form.description),
                 is_napfa_approved |-> form.is_napfa_approved = "on",
                 is_ethics_course |-> form.is_ethics_course = "on",
                 napfa_subject_area |-> OrEmpty(form.napfa_subject_area)])
    /\ UNCHANGED <<now, users, designations, pending, call, result>>

\* the record of a call that begins and returns now
Invocation(fn, who, ud, uds, session, category, reads) ==
    [fn |-> fn, user |-> who.id, who |-> who, ud |-> ud, uds |-> uds,
     session |-> session, category |-> category,
     began |-> now, at |-> now,
     since |-> Len(records), rows |-> Len(records), reads |-> reads]

\* the calculator registered for the code of a stored assignment, called
\* for the assignment's user
CallCalculator(ud) ==
    /\ ud.designation \in DOMAIN DESIGNATION_CALCULATORS
    /\ LET calc == DESIGNATION_CALCULATORS[ud.designation]
           user == CHOOSE u \in {users[i] : i \in 1..Len(users)} : u.id = ud.user_id
       IN /\ result' = ApplyCalculator(calc, user, ud, <<>>)
          /\ call' = Invocation(calc, user, ud, <<>>, NoSession, <<>>,
                                StoreReads(calc, user, ud))
    /\ UNCHANGED <<now, users, designations, records, pending>>

\* a calculator called directly with a user and an assignment (or None)
CallDirect(calc, user, ud) ==
    /\ result' = ApplyCalculator(calc, user, ud, <<>>)
    /\ call' = Invocation(calc, user, ud, <<>>, NoSession, <<>>,
                          StoreReads(calc, user, ud))
    /\ UNCHANGED <<now, users, designations, records, pending>>

\* calculate_designation_requirements(user, user_designations) is entered:
\* the loop has the whole list before it and an empty list of requirements
CallOrchestrator(user, user_designations) ==
    /\ Cardinality(pending) < MaxInFlight
    /\ pending' = pending \cup
            {[request |-> "calculate_designation_requirements", nr |-> DbSession,
              user |-> user, user_designations |-> user_designations,
              left |-> user_designations, requirements |-> <<>>, reads |-> 0,
              since |-> Len(records), began |-> now, at |-> "loop"]}
    /\ UNCHANGED <<now, users, designations, records, call, result>>

\* one pass of the loop of a call t of calculate_designation_requirements, or
\* its return when the list is through: the calculator of the next assignment
\* reads the clock and sends its query to the store as it is now
OrchestratorStep(t) ==
    /\ t \in pending
    /\ t.request = "calculate_designation_requirements"
    /\ LET returns == [Invocation("calculate_designation_requirements", t.user,
                                  NoDesignation, t.user_designations, NoSession,
                                  <<>>, t.reads)
                        EXCEPT !.since = t.since, !.began = t.began]
       IN  IF t.left = <<>>
           THEN /\ pending' = pending \ {t}
                /\ result' = [requirements |-> t.requirements]
                /\ call' = returns
           ELSE \E out \in {RequirementsLoop(t.user, <<Head(t.left)>>,
                                             t.requirements, t.reads, <<>>)} :
                IF HasRaised(out)
                THEN /\ pending' = pending \ {t}
                     /\ result' = [raised |-> out.raised]
                     /\ call' = returns
                ELSE /\ pending' = Continued(t, [t EXCEPT !.left = Tail(@),
                                                          !.requirements = out.requirements,
                                                          !.reads = out.reads])
                     /\ UNCHANGED <<call, result>>
    /\ UNCHANGED <<now, users, designations, records>>

\* calculate_napfa_requirements(user)
CallNapfa(user) ==
    /\ result' = calculate_napfa_requirements(user, <<>>)
    /\ call' = Invocation("calculate_napfa_requirements", user, NoDesignation,
                          <<>>, NoSession, <<>>,
                          IF IsResult(calculate_napfa_requirements(user, <<>>))
                          THEN 1 ELSE 0)
    /\ UNCHANGED <<now, users, designations, records, pending>>

\* rs with record r put before the first record completed earlier than r
RECURSIVE InsertByDateDesc(_, _)
InsertByDateDesc(rs, r) ==
    IF rs = <<>> THEN <<r>>
    ELSE IF DateLE(r.date_completed, Head(rs).date_completed)
         THEN <<Head(rs)>> \o InsertByDateDesc(Tail(rs), r)
         ELSE <<r>> \o rs

\* order_by(CERecord.date_completed.desc()); records of one day stay in the
\* order of the table
RECURSIVE OrderByDateDesc(_)
OrderByDateDesc(rs) ==
    IF rs = <<>> THEN <<>>
    ELSE InsertByDateDesc(OrderByDateDesc(SubSeq(rs, 1, Len(rs) - 1)), rs[Len(rs)])

\* the designation codes in the order of their bytes: the order of the index
\* the unique constraint (user_id, designation) gives the table
CodeOrder ==
    <<"AIF", "CDFA", "CEP", "CFA", "CFP", "CIMA", "CIMC", "CLE", "CLU", "CPA",
      "CPWA", "CRPS", "ChFC", "EA", "ECA", "IAR", "RICP">>

\* the place of a code in that order
CodeRank(code) ==
    IF \E i \in 1..Len(CodeOrder) : CodeOrder[i] = code
    THEN CHOOSE i \in 1..Len(CodeOrder) : CodeOrder[i] = code
    ELSE Len(CodeOrder) + 1

\* uds with assignment ud put after the last one whose code is not later
RECURSIVE InsertByCode(_, _)
InsertByCode(uds, ud) ==
    IF uds = <<>> THEN <<ud>>
    ELSE IF CodeRank(Head(uds).designation) <= CodeRank(ud.designation)
         THEN <<Head(uds)>> \o InsertByCode(Tail(uds), ud)
         ELSE <<ud>> \o uds

RECURSIVE OrderByCode(_)
OrderByCode(uds) ==
    IF uds = <<>> THEN <<>>
    ELSE InsertByCode(OrderByCode(SubSeq(uds, 1, Len(uds) - 1)), uds[Len(uds)])

\* UserDesignation.query.filter_by(user_id=uid).all(): the rows of the user as
\* the index on (user_id, designation) yields them, by designation code
QueryDesignations(uid) ==
    OrderByCode(SelectSeq(designations, LAMBDA ud : ud.user_id = uid))

\* DashboardQuery without filter_by(user_id=...)
DashboardQuery_AnyUser(uid, filter_category) ==
    SelectSeq(records, LAMBDA r :
        filter_category # <<>> => r.category = filter_category)

\* CERecord.query.filter_by(user_id=uid), with filter_by(category=...) when the
\* request has a category parameter
DashboardQuery(uid, filter_category) ==
    SelectSeq(records, LAMBDA r :
        /\ r.user_id = uid
        /\ filter_category # <<>> => r.category = filter_category)

\* GET /dashboard with the given session and category parameter, up to the
\* first query: the session is tested and its account read; for a session
\* whose account is gone User.query.get gives None and user.id raises before
\* any other query
Dashboard(session, filter_category) ==
    /\ Cardinality(pending) < MaxInFlight
    /\ IF session.user_id = 0
       THEN /\ result' = [redirect |-> "auth.login"]
            /\ call' = Invocation("dashboard", NoUser, NoDesignation, <<>>,
                                  session, filter_category, 0)
            /\ pending' = pending
       ELSE IF ~\E i \in 1..Len(users) : users[i].id = session.user_id
       THEN /\ result' = [raised |-> "AttributeError"]
            /\ call' = Invocation("dashboard", NoUser, NoDesignation, <<>>,
                                  session, filter_category, 0)
            /\ pending' = pending
       ELSE /\ pending' = pending \cup
                {[request |-> "dashboard", nr |-> DbSession, session |-> session,
                  filter_category |-> filter_category,
                  user |-> CHOOSE u \in {users[i] : i \in 1..Len(users)} :
                                u.id = session.user_id,
                  at |-> "user_designations", user_designations |-> <<>>,
                  ce_records |-> <<>>, categories |-> {},
                  napfa_requirements |-> None, left |-> <<>>,
                  requirements |-> <<>>, reads |-> 0, since |-> Len(records),
                  began |-> now]}
            /\ UNCHANGED <<call, result>>
    /\ UNCHANGED <<now, users, designations, records>>

\* the page a dashboard request t renders once its queries are through
DashboardPage(t) ==
    [template |-> "dashboard.html",
     ce_records |-> t.ce_records,
     total_hours |-> SumHours(t.ce_records),
     categories |-> t.categories,
     filter_category |-> t.filter_category,
     user_designations |-> t.user_designations,
     napfa_requirements |-> t.napfa_requirements,
     show_napfa |-> IF t.session.show_napfa_tracking = ""
                    THEN t.user.is_napfa_member
                    ELSE t.session.show_napfa_tracking = "True",
     designation_requirements |-> t.requirements,
     user |-> t.user]

\* a dashboard request t after its next query: the assignments of the user,
\* the records of the list, the categories, the NAPFA requirements of a
\* member, then one calculator for each assignment; every query reads the
\* store as it is when it is sent, and the queries of the calculators are
\* answered by the session of the request, which holds the records of the
\* list (ce_records) as it loaded them. The value has a field "raised" when
\* a calculator raises, and a field "template" when the page is rendered
DashboardAfter(t) ==
    IF t.at = "user_designations"
    THEN [t EXCEPT !.user_designations = QueryDesignations(t.user.id),
                   !.at = "ce_records"]
    ELSE IF t.at = "ce_records"
    THEN [t EXCEPT !.ce_records =
                        OrderByDateDesc(DashboardQuery(t.user.id, t.filter_category)),
                   !.at = "categories"]
    ELSE IF t.at = "categories"
    THEN [t EXCEPT !.categories =
                        {records[i].category : i \in {j \in 1..Len(records) :
                            records[j].user_id = t.user.id}} \ {<<>>},
                   !.left = t.user_designations,
                   !.at = IF t.user.is_napfa_member
                          THEN "napfa_requirements" ELSE "designation_requirements"]
    ELSE IF t.at = "napfa_requirements"
    THEN CHOOSE after \in
            {[t EXCEPT !.napfa_requirements = napfa_requirements,
                       !.reads = @ + (IF IsResult(napfa_requirements) THEN 1 ELSE 0),
                       !.at = "designation_requirements"] :
             napfa_requirements \in
                {calculate_napfa_requirements(t.user, t.ce_records)}} : TRUE
    ELSE IF t.left = <<>>
    THEN DashboardPage(t)
    ELSE CHOOSE after \in
            {IF HasRaised(out) THEN [raised |-> out.raised]
             ELSE [t EXCEPT !.left = Tail(@),
                            !.requirements = out.requirements,
                            !.reads = out.reads] :
             out \in {RequirementsLoop(t.user, <<Head(t.left)>>,
                                       t.requirements, t.reads, t.ce_records)}} : TRUE

\* the next query of a dashboard request t, or its end: the page is rendered,
\* or the exception of a calculator leaves the view
DashboardStep(t) ==
    /\ t \in pending
    /\ t.request = "dashboard"
    /\ \E after \in {DashboardAfter(t)} :
        IF "request" \in DOMAIN after
        THEN /\ pending' = Continued(t, after)
             /\ UNCHANGED <<call, result>>
        ELSE /\ pending' = pending \ {t}
             /\ result' = after
             /\ call' = [Invocation("dashboard", t.user, NoDesignation,
                                    t.user_designations, t.session,
                                    t.filter_category, t.reads)
                            EXCEPT !.since = t.since, !.began = t.began]
    /\ UNCHANGED <<now, users, designations, records>>

\* the first and the last day of the clock runs
FirstDay == <<2024, 1, 1>>

LastDay == <<FirstDay[1] + NumYears - 1, 12, 31>>

\* midnight passes: datetime.now() moves to the next calendar day; a return
\* value is kept through one midnight, an older one is forgotten
Tick ==
    /\ now # LastDay
    /\ now' = NextDay(now)
    /\ IF call.at = now
       THEN UNCHANGED <<call, result>>
       ELSE call' = NoCall /\ result' = None
    /\ UNCHANGED <<users, designations, records, pending>>

----------------------------------------------------------------------------
(* Inputs *)

Text_Tax == <<"T", "a", "x">>
Text_Ethics == <<"E", "t", "h", "i", "c", "s">>
Text_ETHICS == <<"E", "T", "H", "I", "C", "S">>
Text_Ethic == <<"E", "t", "h", "i", "c">>

Form(title, category, hours, date, napfa, ethics) ==
    [title |-> title, provider |-> <<>>, hours |-> hours, date_completed |-> date,
     category |-> category, description |-> <<>>, is_napfa_approved |-> napfa,
     is_ethics_course |-> ethics, napfa_subject_area |-> <<>>]

\* the day the aggregation runs are made on
AggToday == <<2025, 7, 15>>

\* inside every reporting window of AggToday
DateInAll == <<2025, 6, 1>>

\* inside the multi-year windows of AggToday only
DateNextYear == <<2026, 2, 1>>

\* the add_ce forms submitted
CEForms ==
    { Form(Text_Tax, <<>>, "30", DateInAll, "", ""),
      Form(Text_Ethics, <<>>, "2", DateInAll, "", ""),
      Form(Text_Tax, Text_ETHICS, "72", DateInAll, "on", "on"),
      Form(Text_Tax, <<>>, "-5", DateInAll, "on", ""),
      Form(Text_Tax, <<>>, "0", DateInAll, "", "on"),
      Form(Text_Ethic, <<>>, "16", DateInAll, "", "on"),
      Form(Text_Tax, <<>>, "16", DateNextYear, "", ""),
      Form(<<>>, <<>>, "30", DateInAll, "", ""),
      Form(Text_Tax, <<>>, "abc", DateInAll, "", ""),
      Form(Text_Tax, <<>>, "", DateInAll, "", ""),
      Form(Text_Tax, <<>>, "2", NoDate, "", ""),
      Form(Text_Tax, <<>>, "2", <<2025, 2, 30>>, "", "") }

UserRow(id, member, join_date) ==
    [id |-> id, is_napfa_member |-> member, napfa_join_date |-> join_date]

DesignationRow(id, user_id, code, created_at) ==
    [id |-> id, user_id |-> user_id, designation |-> code,
     birth_month |-> 0, state |-> <<>>, created_at |-> created_at]

CfpRow(id, user_id, birth_month, created_at) ==
    [id |-> id, user_id |-> user_id, designation |-> "CFP",
     birth_month |-> birth_month, state |-> <<>>, created_at |-> created_at]

CpaRow(id, user_id, state, created_at) ==
    [id |-> id, user_id |-> user_id, designation |-> "CPA",
     birth_month |-> 0, state |-> state, created_at |-> created_at]

\* one assignment of the given code, as register and manage_designations store it
AssignmentsOf(code, months, created) ==
    IF code = "CFP" THEN {CfpRow(1, 1, m, c) : m \in months, c \in created}
    ELSE IF code = "CPA" THEN {CpaRow(1, 1, <<"C", "A">>, c) : c \in created}
    ELSE {DesignationRow(1, 1, code, c) : c \in created}

Codes == {ALLOWED_DESIGNATIONS[i] : i \in 1..Len(ALLOWED_DESIGNATIONS)}

----------------------------------------------------------------------------
(* Aggregation runs: a fixed day, one assignment, records added by add_ce *)

Init ==
    /\ now = AggToday
    /\ users = <<UserRow(1, TRUE, <<2024, 4, 1>>), UserRow(2, FALSE, NoDate)>>
    /\ \E code \in Codes :
         \E ud \in AssignmentsOf(code, {6}, {<<2023, 3, 10>>}) :
            designations = <<ud>>
    /\ records = <<>>
    /\ pending = {}
    /\ call = NoCall
    /\ result = None
    /\ cookie = NoSession
    /\ response = NoResponse
    /\ clock = 0
    /\ issued = {}

\* the sessions requests come with: none, and one of each user
Sessions == {NoSession, Session(1, ""), Session(2, ""), Session(1, "False")}

\* the same for the pages that do not read show_napfa_tracking
AccountSessions == {NoSession, Session(1, ""), Session(2, "")}

Next ==
    \/ \E session \in Sessions, form \in CEForms : AddCE(session, form) /\ Quiet
    \/ \E i \in 1..Len(designations) : CallCalculator(designations[i]) /\ Quiet
    \/ \E i \in 1..Len(users) : users[i].is_napfa_member /\ CallNapfa(users[i]) /\ Quiet

Spec == Init /\ [][Next]_vars

----------------------------------------------------------------------------
(* Clock runs: a fixed store, the clock advancing one day at a time *)

Record(id, user_id, title, category, hours, date, napfa, ethics) ==
    [id |-> id, user_id |-> user_id, title |-> title, provider |-> <<>>,
     hours |-> hours, date_completed |-> date, category |-> category,
     description |-> <<>>, is_napfa_approved |-> napfa,
     is_ethics_course |-> ethics, napfa_subject_area |-> <<>>]

\* records on both sides of the window boundaries; every one has its own
\* power of two as hours, so a sum of hours tells which records it counts
ClockRecords ==
    << Record(1, 1, Text_Tax, <<>>, 1, <<2024, 12, 31>>, TRUE, FALSE),
       Record(2, 1, Text_Ethics, <<>>, 2, <<2025, 1, 1>>, FALSE, FALSE),
       Record(3, 1, Text_Tax, <<>>, 4, <<2025, 3, 9>>, FALSE, FALSE),
       Record(4, 1, Text_Tax, Text_ETHICS, 8, <<2025, 3, 10>>, TRUE, FALSE),
       Record(5, 1, Text_Tax, <<>>, 16, <<2025, 5, 31>>, FALSE, FALSE),
       Record(6, 1, Text_Tax, <<>>, 32, <<2025, 6, 1>>, FALSE, FALSE),
       Record(7, 2, Text_Tax, <<>>, 64, <<2025, 6, 1>>, TRUE, TRUE),
       Record(8, 1, Text_Ethic, <<>>, 128, <<2025, 12, 31>>, TRUE, FALSE),
       Record(9, 1, Text_Tax, <<>>, 256, <<2026, 1, 1>>, FALSE, TRUE),
       Record(10, 1, Text_Tax, <<>>, 512, <<2026, 12, 31>>, FALSE, FALSE),
       Record(11, 1, Text_Tax, <<>>, 1024, <<2027, 1, 1>>, TRUE, FALSE),
       Record(12, 2, Text_Ethics, <<>>, 2048, <<2025, 1, 1>>, FALSE, FALSE) >>

\* the days CEP and ECA assignments were created on
AnchorDates ==
    { <<2020, 2, 29>>, <<2021, 3, 10>>, <<2022, 6, 15>>, <<2023, 3, 10>>,
      <<2023, 12, 31>>, <<2024, 1, 1>> }

\* the NAPFA join dates registered
JoinDates ==
    { <<2023, 12, 31>>, <<2024, 4, 1>>, <<2024, 6, 30>>, <<2024, 7, 1>>,
      <<2024, 12, 31>>, <<2025, 1, 1>>, <<2025, 6, 30>>, <<2025, 7, 1>>,
      <<2026, 6, 30>>, <<2026, 7, 1>> }

ClockAssignments ==
    UNION { AssignmentsOf(code,
                1..12,
                IF code = "CEP" THEN AnchorDates
                ELSE IF code = "ECA" THEN {<<2020, 2, 29>>, <<2023, 3, 10>>}
                ELSE {<<2023, 3, 10>>}) : code \in Codes }

InitClock ==
    /\ now = FirstDay
    /\ \/ /\ users = <<UserRow(1, FALSE, NoDate), UserRow(2, FALSE, NoDate)>>
          /\ \E ud \in ClockAssignments : designations = <<ud>>
       \/ /\ \E join \in JoinDates :
                users = <<UserRow(1, TRUE, join), UserRow(2, FALSE, NoDate)>>
          /\ designations = <<>>
    /\ records = ClockRecords
    /\ pending = {}
    /\ call = NoCall
    /\ result = None
    /\ cookie = NoSession
    /\ response = NoResponse
    /\ clock = 0
    /\ issued = {}

NextClock ==
    \/ Tick /\ Quiet
    \/ \E i \in 1..Len(designations) : CallCalculator(designations[i]) /\ Quiet
    \/ \E i \in 1..Len(users) : users[i].is_napfa_member /\ CallNapfa(users[i]) /\ Quiet

SpecClock == InitClock /\ [][NextClock]_vars

----------------------------------------------------------------------------
(* Dispatch runs: a fixed day and store, the calculators and the            *)
(* orchestrator called with every argument of a bounded set                 *)

\* assignments handed to the calculators: stored ones of user 1 and user 2,
\* an assignment of a code without calculator, a CFP one without birth_month,
\* and CEP ones created on an ordinary day and on a February 29
ArgumentRows ==
    { CfpRow(1, 1, 6, <<2023, 3, 10>>),
      [CfpRow(2, 1, 6, <<2023, 3, 10>>) EXCEPT !.birth_month = 0],
      CpaRow(3, 1, <<"C", "A">>, <<2023, 3, 10>>),
      DesignationRow(4, 1, "CLE", <<2023, 3, 10>>),
      DesignationRow(5, 1, "EA", <<2023, 3, 10>>),
      DesignationRow(6, 1, "CEP", <<2023, 3, 10>>),
      DesignationRow(7, 1, "CEP", <<2024, 2, 29>>),
      DesignationRow(8, 2, "IAR", <<2023, 3, 10>>) }

RECURSIVE ListsUpTo(_, _)
ListsUpTo(S, n) ==
    IF n = 0 THEN {<<>>}
    ELSE LET shorter == ListsUpTo(S, n - 1)
         IN shorter \cup {Append(l, x) : l \in shorter, x \in S}

\* the lists handed to the orchestrator
ArgumentLists == ListsUpTo(ArgumentRows, MaxAssignments)

\* the users handed to calculate_napfa_requirements: the stored ones, a
\* member without join date and a non-member with one
NapfaArguments ==
    { UserRow(1, TRUE, <<2024, 4, 1>>), UserRow(2, FALSE, NoDate),
      UserRow(3, TRUE, NoDate), UserRow(4, FALSE, <<2024, 4, 1>>) }

\* the assignments in the store
StoredAssignments ==
    { <<>>,
      <<CfpRow(1, 1, 6, <<2023, 3, 10>>)>>,
      <<DesignationRow(4, 1, "CLE", <<2023, 3, 10>>),
        DesignationRow(8, 2, "IAR", <<2023, 3, 10>>)>>,
      <<DesignationRow(5, 1, "EA", <<2023, 3, 10>>),
        DesignationRow(4, 1, "CLE", <<2023, 3, 10>>),
        CpaRow(3, 1, <<"C", "A">>, <<2023, 3, 10>>)>>,
      <<DesignationRow(7, 1, "CEP", <<2024, 2, 29>>)>> }

InitDispatch ==
    /\ now = AggToday
    /\ users = <<UserRow(1, TRUE, <<2024, 4, 1>>), UserRow(2, FALSE, NoDate)>>
    /\ designations \in StoredAssignments
    /\ records = ClockRecords
    /\ pending = {}
    /\ call = NoCall
    /\ result = None
    /\ cookie = NoSession
    /\ response = NoResponse
    /\ clock = 0
    /\ issued = {}

DispatchCall ==
    \/ \E calc \in {DESIGNATION_CALCULATORS[c] : c \in DOMAIN DESIGNATION_CALCULATORS},
          i \in 1..Len(users), ud \in ArgumentRows \cup {NoDesignation} :
            CallDirect(calc, users[i], ud) /\ Quiet
    \/ \E user \in NapfaArguments : CallNapfa(user) /\ Quiet
    \/ \E i \in 1..Len(users), uds \in ArgumentLists :
            CallOrchestrator(users[i], uds) /\ Quiet
    \/ \E session \in Sessions, category \in {<<>>, Text_ETHICS} :
            Dashboard(session, category) /\ Quiet

\* every run of the dispatch runs makes one call, and the orchestrator and
\* the dashboard go through their queries one at a time
NextDispatch ==
    \/ call = NoCall /\ Settled /\ DispatchCall
    \/ \E t \in pending : OrchestratorStep(t) /\ Quiet
    \/ \E t \in pending : DashboardStep(t) /\ Quiet

SpecDispatch == InitDispatch /\ [][NextDispatch]_vars

----------------------------------------------------------------------------
(* Page runs: several users' assignments, records added by add_ce and one  *)
(* midnight between the queries of the dashboard and of the orchestrator    *)

PageForms ==
    { Form(Text_Ethics, <<>>, "2", DateInAll, "", ""),
      Form(Text_Tax, Text_ETHICS, "72", DateInAll, "on", "on") }

InitPages ==
    /\ now = AggToday
    /\ users = <<UserRow(1, TRUE, <<2024, 4, 1>>), UserRow(2, FALSE, NoDate)>>
    /\ designations \in StoredAssignments
    /\ records = <<>>
    /\ pending = {}
    /\ call = NoCall
    /\ result = None
    /\ cookie \in Sessions
    /\ response = NoResponse
    /\ clock = 0
    /\ issued = {}

\* the browser of the run asks for its dashboard, and the orchestrator is
\* called for its user, one call at a time; add_ce of any user stores records
\* between the queries of a call, and midnight may pass between them
NextPages ==
    \/ \E session \in Sessions, form \in PageForms : AddCE(session, form) /\ Quiet
    \/ \E i \in 1..Len(users) :
            /\ Settled /\ users[i].id = cookie.user_id
            /\ CallOrchestrator(users[i], QueryDesignations(users[i].id)) /\ Quiet
    \/ \E category \in {<<>>, Text_ETHICS} :
            Settled /\ Dashboard(cookie, category) /\ Quiet
    \/ \E t \in pending : OrchestratorStep(t) /\ Quiet
    \/ \E t \in pending : DashboardStep(t) /\ Quiet
    \/ now = AggToday /\ ~Settled /\ Tick /\ Quiet

SpecPages == InitPages /\ [][NextPages]_vars

----------------------------------------------------------------------------
(* Account requests: register and manage_designations, each a transaction  *)
(* that validates against the store it reads and commits later              *)

\* int(text) of the birth month texts; a text outside the table raises
\* ValueError
IntTable ==
    [t \in {"6", " 7 ", "12", "0", "13"} |->
        CASE t = "6" -> 6
          [] t = " 7 " -> 7
          [] t = "12" -> 12
          [] t = "0" -> 0
          [] t = "13" -> 13]

\* generate_password_hash(password); check_password_hash accepts the password
\* hashed and no other
generate_password_hash(password) == [method |-> "scrypt", of |-> password]

\* a row of the users table
Account(id, username, email, password_hash, member, join_date, created_at) ==
    [id |-> id, username |-> username, email |-> email,
     password_hash |-> password_hash, created_at |-> created_at,
     is_napfa_member |-> member, napfa_join_date |-> join_date,
     is_admin |-> FALSE, reset_token |-> <<>>, reset_token_expiry |-> NoDate]

\* the errors list of register
RegisterErrors(form) ==
    LET username == Strip(form.username)
        email == Strip(form.email)
        chosen == {form.designations[i] : i \in 1..Len(form.designations)}
    IN  (IF username = <<>> THEN {"Username is required."} ELSE {})
        \cup (IF email = <<>> THEN {"Email is required."} ELSE {})
        \cup (IF form.password = <<>> THEN {"Password is required."}
              ELSE IF Len(form.password) < 6
                   THEN {"Password must be at least 6 characters long."}
                   ELSE {})
        \cup (IF /\ form.password # <<>> /\ form.confirm_password # <<>>
                 /\ form.password # form.confirm_password
              THEN {"Passwords do not match."} ELSE {})
        \cup (IF "CFP" \notin chosen THEN {}
              ELSE IF form.cfp_birth_month = ""
                   THEN {"Birth month is required for CFP designation."}
              ELSE IF form.cfp_birth_month \notin DOMAIN IntTable
                   THEN {"Invalid birth month."}
              ELSE IF \/ IntTable[form.cfp_birth_month] < 1
                      \/ IntTable[form.cfp_birth_month] > 12
                   THEN {"Birth month must be between 1 and 12."}
                   ELSE {})
        \cup (IF "CPA" \notin chosen THEN {}
              ELSE IF form.cpa_state = <<>>
                   THEN {"State is required for CPA designation."}
              ELSE IF Len(form.cpa_state) # 2 \/ ~IsAlpha(form.cpa_state)
                   THEN {"Invalid state abbreviation. Please use a 2-letter state code (e.g., CA, NY, TX)."}
                   ELSE {})
        \cup (IF form.is_napfa_member # "on" THEN {}
              ELSE IF form.napfa_join_date = NoDate
                   THEN {"NAPFA join date is required if you are a NAPFA member."}
              ELSE IF ~ValidDate(form.napfa_join_date[1], form.napfa_join_date[2],
                                 form.napfa_join_date[3])
                   THEN {"Invalid NAPFA join date format."}
                   ELSE {})

\* the UserDesignation objects register adds to the session, in the order of
\* the form's list; user_id is filled in when the user row is inserted
RECURSIVE RegisterRows(_, _)
RegisterRows(form, chosen) ==
    IF chosen = <<>> THEN <<>>
    ELSE LET designation == Head(chosen) IN
         (IF designation \in Codes
          THEN <<[id |-> 0, user_id |-> 0, designation |-> designation,
                  birth_month |->
                      IF designation = "CFP" /\ form.cfp_birth_month # ""
                      THEN IntTable[form.cfp_birth_month] ELSE 0,
                  state |->
                      IF designation = "CPA" /\ form.cpa_state # <<>>
                      THEN Upper(form.cpa_state) ELSE <<>>,
                  created_at |-> NoDate]>>
          ELSE <<>>)
         \o RegisterRows(form, Tail(chosen))

\* POST /register up to its query for the username: the form is validated,
\* the users are searched for the username, and a request with a free
\* username goes on to the query for the email with the rows it will add
Register(session, form) ==
    /\ Cardinality(pending) < MaxInFlight
    /\ IF \/ session.user_id # 0
          \/ RegisterErrors(form) # {}
          \/ \E i \in 1..Len(users) : users[i].username = Strip(form.username)
       THEN UNCHANGED pending
       ELSE pending' = pending \cup
                {[request |-> "register", nr |-> DbSession, at |-> "email",
                  user |-> Account(0, Strip(form.username), Strip(form.email),
                                   generate_password_hash(form.password),
                                   form.is_napfa_member = "on",
                                   IF form.is_napfa_member = "on"
                                   THEN form.napfa_join_date ELSE NoDate,
                                   NoDate),
                  rows |-> RegisterRows(form, form.designations)]}
    /\ UNCHANGED <<now, users, designations, records, call, result>>

\* the query of register for the email, sent to the users as they are now: a
\* request whose email is taken ends here, the others wait for the commit
RegisterEmail(t) ==
    /\ t \in pending
    /\ t.request = "register" /\ t.at = "email"
    /\ IF \E i \in 1..Len(users) : users[i].email = t.user.email
       THEN pending' = pending \ {t}
       ELSE pending' = Continued(t, [t EXCEPT !.at = "commit"])
    /\ UNCHANGED <<now, users, designations, records, call, result>>

\* POST /manage_designations with action=add up to the commit
ManageDesignationsAdd(session, form) ==
    /\ Cardinality(pending) < MaxInFlight
    /\ IF \/ session.user_id = 0
          \/ ~\E i \in 1..Len(users) : users[i].id = session.user_id
          \/ form.designation \notin Codes
          \/ \E i \in 1..Len(designations) :
                /\ designations[i].user_id = session.user_id
                /\ designations[i].designation = form.designation
          \/ /\ form.designation = "CFP"
             /\ \/ form.cfp_birth_month \notin DOMAIN IntTable
                \/ IntTable[form.cfp_birth_month] < 1
                \/ IntTable[form.cfp_birth_month] > 12
          \/ /\ form.designation = "CPA"
             /\ \/ form.cpa_state = <<>>
                \/ Len(form.cpa_state) # 2
                \/ ~IsAlpha(form.cpa_state)
       THEN UNCHANGED pending
       ELSE pending' = pending \cup
                {[request |-> "add", nr |-> DbSession,
                  user |-> CHOOSE u \in {users[i] : i \in 1..Len(users)} :
                               u.id = session.user_id,
                  rows |-> <<[id |-> 0, user_id |-> session.user_id,
                              designation |-> form.designation,
                              birth_month |->
                                  IF form.designation = "CFP"
                                  THEN IntTable[form.cfp_birth_month] ELSE 0,
                              state |->
                                  IF form.designation = "CPA"
                                  THEN Upper(form.cpa_state) ELSE <<>>,
                              created_at |-> NoDate]>>]}
    /\ UNCHANGED <<now, users, designations, records, call, result>>

\* the rows of a transaction as the INSERTs write them: ids from the table,
\* the user's id, created_at from the clock
RECURSIVE InsertRows(_, _, _)
InsertRows(table, rows, user_id) ==
    IF rows = <<>> THEN table
    ELSE InsertRows(Append(table, [Head(rows) EXCEPT !.id = NextId(table),
                                                     !.user_id = user_id,
                                                     !.created_at = now]),
                    Tail(rows), user_id)

\* BreaksUnique without the constraints on users.username and users.email
BreaksUnique_AssignmentsOnly(t) ==
    \/ /\ t.request = "register"
       /\ \E i, j \in 1..Len(t.rows) :
                i # j /\ t.rows[i].designation = t.rows[j].designation
    \/ /\ t.request = "add"
       /\ \E i \in 1..Len(designations) :
            /\ designations[i].user_id = t.user.id
            /\ designations[i].designation = t.rows[1].designation

\* BreaksUnique without the constraint unique_user_designation
BreaksUnique_UsersOnly(t) ==
    /\ t.request = "register"
    /\ \E i \in 1..Len(users) :
          \/ users[i].username = t.user.username
          \/ users[i].email = t.user.email

\* the INSERTs or the UPDATE of transaction t break a unique constraint:
\* users.username, users.email, or unique_user_designation (user_id,
\* designation)
BreaksUnique(t) ==
    \/ /\ t.request = "register"
       /\ \/ \E i \in 1..Len(users) :
                \/ users[i].username = t.user.username
                \/ users[i].email = t.user.email
          \/ \E i, j \in 1..Len(t.rows) :
                i # j /\ t.rows[i].designation = t.rows[j].designation
    \/ /\ t.request = "add"
       /\ \E i \in 1..Len(designations) :
            /\ designations[i].user_id = t.user.id
            /\ designations[i].designation = t.rows[1].designation
    \/ /\ t.request = "update_email"
       /\ \E i \in 1..Len(users) :
            users[i].id # t.user.id /\ users[i].email = t.user.email

\* a value of transaction t is longer than its column: state is String(2).
\* PostgreSQL refuses the INSERT, SQLite stores the value
TooLong(t) ==
    /\ t.request \in {"register", "add"}
    /\ \E i \in 1..Len(t.rows) : Len(t.rows[i].state) > 2

\* the UPDATE of transaction t matches no row: the record was deleted after
\* the request read it, and the flush raises StaleDataError. A DELETE that
\* matches no row only warns
Stale(t) ==
    /\ t.request = "edit"
    /\ t.changed # {}
    /\ ~\E i \in 1..Len(records) : records[i].id = t.rows[1].id

\* the records of an import as the INSERTs write them: ids from the table
RECURSIVE InsertRecords(_, _)
InsertRecords(table, rows) ==
    IF rows = <<>> THEN table
    ELSE InsertRecords(Append(table, [Head(rows) EXCEPT !.id = NextId(table)]),
                       Tail(rows))

\* the UPDATE of an edit_ce transaction: the columns whose value the request
\* changed on the record it read are written to the row of that id, the other
\* columns are left as the table holds them
UpdateChanged(r, t) ==
    LET new == t.rows[1]
    IN  [r EXCEPT
            !.title = IF "title" \in t.changed THEN new.title ELSE @,
            !.provider = IF "provider" \in t.changed THEN new.provider ELSE @,
            !.hours = IF "hours" \in t.changed THEN new.hours ELSE @,
            !.date_completed =
                IF "date_completed" \in t.changed THEN new.date_completed ELSE @,
            !.category = IF "category" \in t.changed THEN new.category ELSE @,
            !.description = IF "description" \in t.changed THEN new.description ELSE @,
            !.is_napfa_approved =
                IF "is_napfa_approved" \in t.changed THEN new.is_napfa_approved ELSE @,
            !.is_ethics_course =
                IF "is_ethics_course" \in t.changed THEN new.is_ethics_course ELSE @,
            !.napfa_subject_area =
                IF "napfa_subject_area" \in t.changed THEN new.napfa_subject_area ELSE @]

\* request t has come to its db.session.commit(): a request that sends
\* several queries says where it is (at)
AtCommit(t) == "at" \in DOMAIN t => t.at = "commit"

\* db.session.commit() of a waiting transaction: its statements are written
\* to the tables as they are now, by the ids and values the request read, or
\* the database raises and the transaction is rolled back
Commit(t) ==
    /\ t \in pending
    /\ AtCommit(t)
    /\ t.request \in {"register", "add"} =>
            Len(designations) + Len(t.rows) <= MaxRows
    /\ t.request \in {"import_ce", "import_backup"} =>
            Len(records) + Len(t.rows) <= MaxRecords
    /\ pending' = pending \ {t}
    /\ IF t.request \in {"register", "add", "update_email"}
       THEN /\ records' = records
            /\ \/ /\ BreaksUnique(t)
                  /\ UNCHANGED <<users, designations>>
               \/ /\ TooLong(t)
                  /\ UNCHANGED <<users, designations>>
               \/ /\ ~BreaksUnique(t)
                  /\ IF t.request = "register"
                     THEN /\ users' = Append(users,
                                        [t.user EXCEPT !.id = NextId(users),
                                                       !.created_at = now])
                          /\ designations' =
                                InsertRows(designations, t.rows, NextId(users))
                     ELSE IF t.request = "update_email"
                     THEN /\ users' = [i \in 1..Len(users) |->
                                        IF users[i].id # t.user.id THEN users[i]
                                        ELSE [users[i] EXCEPT !.email = t.user.email]]
                          /\ designations' = designations
                     ELSE /\ users' = users
                          /\ designations' =
                                InsertRows(designations, t.rows, t.user.id)
       ELSE IF t.request = "change_password"
       THEN /\ users' = [i \in 1..Len(users) |->
                            IF users[i].id # t.user.id THEN users[i]
                            ELSE [users[i] EXCEPT
                                    !.password_hash = t.user.password_hash]]
            /\ UNCHANGED <<designations, records>>
       ELSE IF t.request = "forgot_password"
       THEN /\ users' = [i \in 1..Len(users) |->
                            IF users[i].id # t.user.id THEN users[i]
                            ELSE [users[i] EXCEPT
                                    !.reset_token = t.user.reset_token,
                                    !.reset_token_expiry =
                                        t.user.reset_token_expiry]]
            /\ UNCHANGED <<designations, records>>
       ELSE IF t.request = "reset_password"
       THEN /\ users' = [i \in 1..Len(users) |->
                            IF users[i].id # t.user.id THEN users[i]
                            ELSE [users[i] EXCEPT
                                    !.password_hash = t.user.password_hash,
                                    !.reset_token = <<>>,
                                    !.reset_token_expiry = NoDate]]
            /\ UNCHANGED <<designations, records>>
       ELSE IF t.request = "remove"
       THEN /\ designations' =
                    SelectSeq(designations, LAMBDA ud : ud.id # t.rows[1].id)
            /\ UNCHANGED <<users, records>>
       ELSE IF t.request = "delete"
       THEN /\ records' = SelectSeq(records, LAMBDA r : r.id # t.rows[1].id)
            /\ UNCHANGED <<users, designations>>
       ELSE IF t.request = "edit"
       THEN /\ records' = [i \in 1..Len(records) |->
                            IF records[i].id # t.rows[1].id THEN records[i]
                            ELSE UpdateChanged(records[i], t)]
            /\ UNCHANGED <<users, designations>>
       ELSE /\ records' = InsertRecords(records, t.rows)
            /\ UNCHANGED <<users, designations>>
    /\ UNCHANGED <<now, call, result>>

\* POST /manage_designations with action=remove up to the commit: the row is
\* read and its owner compared with the session, and the DELETE waits for the
\* commit
ManageDesignationsRemove(session, designation_id) ==
    /\ Cardinality(pending) < MaxInFlight
    /\ IF \/ session.user_id = 0
          \/ ~\E i \in 1..Len(users) : users[i].id = session.user_id
          \/ ~\E i \in 1..Len(designations) :
                /\ designations[i].id = designation_id
                /\ designations[i].user_id = session.user_id
       THEN UNCHANGED pending
       ELSE pending' = pending \cup
                {[request |-> "remove", nr |-> DbSession, session |-> session,
                  rows |-> SelectSeq(designations,
                                     LAMBDA ud : ud.id = designation_id)]}
    /\ UNCHANGED <<now, users, designations, records, call, result>>

Text_ann == <<"a", "n", "n">>
Text_bob == <<"b", "o", "b">>
Text_cyd == <<"c", "y", "d">>
Text_secret == <<"s", "e", "c", "r", "e", "t">>

RegisterForm(username, email, password, confirm_password, chosen, cfp_birth_month, cpa_state, is_napfa_member, napfa_join_date) ==
    [username |-> username, email |-> email, password |-> password,
     confirm_password |-> confirm_password, designations |-> chosen,
     cfp_birth_month |-> cfp_birth_month, cpa_state |-> cpa_state,
     is_napfa_member |-> is_napfa_member, napfa_join_date |-> napfa_join_date]

RegisterForms ==
    { RegisterForm(Text_bob, Text_bob, Text_secret, Text_secret,
                   <<"CFP", "CPA">>, "6", <<"n", "y">>, "", NoDate),
      RegisterForm(Text_bob, Text_bob, Text_secret, <<>>,
                   <<"CLE", "XYZ">>, " 7 ", <<"C", "A">>, "on", <<2024, 4, 1>>),
      RegisterForm(Text_cyd, Text_cyd, Text_secret, Text_secret,
                   <<"CFP", "CFP">>, "12", <<>>, "", NoDate),
      RegisterForm(Text_cyd, Text_bob, Text_secret, Text_secret,
                   <<"CPA">>, "", <<"ß", "a">>, "", <<2024, 4, 1>>),
      RegisterForm(<<" ">> \o Text_ann \o <<" ">>, Text_bob, Text_secret,
                   Text_secret, <<>>, "", <<>>, "", NoDate),
      RegisterForm(Text_bob, Text_ann, Text_secret, Text_secret,
                   <<>>, "", <<>>, "", NoDate),
      RegisterForm(<<" ">>, <<>>, <<>>, <<>>, <<>>, "", <<>>, "", NoDate),
      RegisterForm(Text_bob, Text_bob, <<"s", "e", "c">>, <<"s", "e", "c">>,
                   <<>>, "", <<>>, "", NoDate),
      RegisterForm(Text_bob, Text_bob, Text_secret, Text_bob,
                   <<>>, "", <<>>, "", NoDate),
      RegisterForm(Text_bob, Text_bob, Text_secret, Text_secret,
                   <<"CFP">>, "", <<>>, "", NoDate),
      RegisterForm(Text_bob, Text_bob, Text_secret, Text_secret,
                   <<"CFP">>, "13", <<>>, "", NoDate),
      RegisterForm(Text_bob, Text_bob, Text_secret, Text_secret,
                   <<"CFP">>, "abc", <<>>, "", NoDate),
      RegisterForm(Text_bob, Text_bob, Text_secret, Text_secret,
                   <<"CPA">>, "", <<>>, "", NoDate),
      RegisterForm(Text_bob, Text_bob, Text_secret, Text_secret,
                   <<"CPA">>, "", <<"c", "1">>, "", NoDate),
      RegisterForm(Text_bob, Text_bob, Text_secret, Text_secret,
                   <<>>, "", <<>>, "on", NoDate),
      RegisterForm(Text_bob, Text_bob, Text_secret, Text_secret,
                   <<>>, "", <<>>, "on", <<2025, 2, 30>>) }

AddForm(designation, cfp_birth_month, cpa_state) ==
    [designation |-> designation, cfp_birth_month |-> cfp_birth_month,
     cpa_state |-> cpa_state]

AddForms ==
    { AddForm("CFP", "12", <<"c", "a">>),
      AddForm("CFP", "", <<>>),
      AddForm("CFP", "0", <<>>),
      AddForm("CFP", "13", <<>>),
      AddForm("CFP", "abc", <<>>),
      AddForm("CPA", "6", <<"N", "y">>),
      AddForm("CPA", "", <<"ß", "a">>),
      AddForm("CPA", "", <<>>),
      AddForm("CPA", "", <<"c", "1">>),
      AddForm("CPA", "", <<"c", "a", "l">>),
      AddForm("CLE", "6", <<"c", "a">>),
      AddForm("XYZ", "6", <<"c", "a">>),
      AddForm("", "", <<>>) }

InitAccounts ==
    /\ now = AggToday
    /\ users = <<Account(1, Text_ann, Text_ann, generate_password_hash(Text_secret),
                         FALSE, NoDate, <<2023, 3, 10>>)>>
    /\ designations = <<>>
    /\ records = <<>>
    /\ pending = {}
    /\ call = NoCall
    /\ result = None
    /\ cookie = NoSession
    /\ response = NoResponse
    /\ clock = 0
    /\ issued = {}

NextAccounts ==
    \/ \E session \in AccountSessions, form \in RegisterForms : Register(session, form) /\ Quiet
    \/ \E t \in pending : RegisterEmail(t) /\ Quiet
    \/ \E session \in AccountSessions, form \in AddForms :
            ManageDesignationsAdd(session, form) /\ Quiet
    \/ \E t \in pending : Commit(t) /\ Quiet
    \/ \E session \in AccountSessions, designation_id \in 1..MaxRows :
            ManageDesignationsRemove(session, designation_id) /\ Quiet

SpecAccounts == InitAccounts /\ [][NextAccounts]_vars

----------------------------------------------------------------------------
(* Record requests: add_ce, edit_ce, delete_ce, import_ce and import_backup, *)
(* sent by a browser that logs in and out                                    *)

\* the columns an edit_ce request gave a new value: the session writes a
\* column only when the value assigned differs from the one it read
ChangedColumns(r, new) ==
    {f \in {"title", "provider", "hours", "date_completed", "category",
            "description", "is_napfa_approved", "is_ethics_course",
            "napfa_subject_area"} : r[f] # new[f]}

\* POST /edit_ce/<ce_id> with the given session and form, up to the commit:
\* the record is read, its owner compared with the session, the form
\* validated and its values assigned; the UPDATE waits for the commit
EditCE(session, ce_id, form) ==
    /\ Cardinality(pending) < MaxInFlight
    /\ IF \/ session.user_id = 0
          \/ ~\E i \in 1..Len(records) :
                records[i].id = ce_id /\ records[i].user_id = session.user_id
          \/ form.title = <<>> \/ form.hours = "" \/ form.date_completed = NoDate
          \/ form.hours \notin DOMAIN FloatTable
          \/ ~ValidDate(form.date_completed[1], form.date_completed[2],
                        form.date_completed[3])
       THEN UNCHANGED pending
       ELSE LET ce_record == CHOOSE r \in {records[i] : i \in 1..Len(records)} :
                                r.id = ce_id
                new == [ce_record EXCEPT
                            !.title = form.title,
                            !.provider = OrEmpty(form.provider),
                            !.hours = FloatTable[form.hours],
                            !.date_completed = form.date_completed,
                            !.category = OrEmpty(form.category),
                            !.description = OrEmpty(form.description),
                            !.is_napfa_approved = form.is_napfa_approved = "on",
                            !.is_ethics_course = form.is_ethics_course = "on",
                            !.napfa_subject_area = OrEmpty(form.napfa_subject_area)]
            IN  pending' = pending \cup
                    {[request |-> "edit", nr |-> DbSession, session |-> session,
                      rows |-> <<new>>,
                      changed |-> ChangedColumns(ce_record, new)]}
    /\ UNCHANGED <<now, users, designations, records, call, result>>

\* filename.lower().endswith(suffix)
LowerEndsWith(filename, suffix) ==
    /\ Len(filename) >= Len(suffix)
    /\ SubSeq(Lower(filename), Len(filename) - Len(suffix) + 1, Len(filename)) = suffix

\* the date of an imported entry: the parsed text, today when the text is
\* empty or cannot be parsed
ImportedDate(date) ==
    IF date # NoDate /\ ValidDate(date[1], date[2], date[3]) THEN date ELSE now

\* the columns import_ce maps header names to
MappedColumns ==
    {"title", "hours", "date_completed", "provider", "category", "description"}

\* a line of a CSV file: its values and the number of fields it has
Line(entry, fields) == [fields |-> fields] @@ entry

\* a CSV row as the row loop of import_ce reads it from csv.DictReader: a
\* column the header lacks reads as '', a column past the end of the line is
\* None (none holds the columns that are); the flags and the subject area are
\* not columns of the file
CsvRow(fieldnames, row) ==
    LET Has(key) == \E k \in 1..Len(fieldnames) : fieldnames[k] = key
        At(key) == CHOOSE k \in 1..Len(fieldnames) : fieldnames[k] = key
        Value(key, empty) ==
            IF Has(key) /\ At(key) <= row.fields THEN row[key] ELSE empty
    IN  [title |-> Value("title", <<>>), provider |-> Value("provider", <<>>),
         hours |-> Value("hours", ""),
         date_completed |-> Value("date_completed", NoDate),
         category |-> Value("category", <<>>),
         description |-> Value("description", <<>>),
         is_napfa_approved |-> FALSE, is_ethics_course |-> FALSE,
         napfa_subject_area |-> <<>>,
         none |-> {key \in MappedColumns : Has(key) /\ At(key) > row.fields}]

\* one pass of the row loop of import_ce (csv) or import_backup over an entry
\* of the file, with the table as the duplicate query of this pass reads it:
\* import_ce strips its six values first, which raises on None, and passes
\* over a row without title and hours; an entry without title, with hours
\* that are not a number or not above zero, or one the table already holds
\* (same user, title, date and hours) is skipped; float() of a JSON integer
\* too large for a float raises OverflowError, which the loop does not catch;
\* import_ce leaves the flags to their default and the subject area NULL
ImportRow(table, entry, user_id, csv) ==
    IF csv /\ entry.none # {} THEN [class |-> "raised"]
    ELSE LET title == Strip(entry.title)
             date_completed == ImportedDate(entry.date_completed)
         IN  IF csv /\ title = <<>> /\ entry.hours = "" THEN [class |-> "blank"]
             ELSE IF title = <<>> THEN [class |-> "skipped"]
             ELSE IF ~csv /\ entry.hours = "10**400" THEN [class |-> "raised"]
             ELSE IF \/ entry.hours \notin DOMAIN FloatTable
                     \/ FloatTable[entry.hours] <= 0
                     \/ \E i \in 1..Len(table) :
                            /\ table[i].user_id = user_id
                            /\ table[i].title = title
                            /\ table[i].date_completed = date_completed
                            /\ table[i].hours = FloatTable[entry.hours]
             THEN [class |-> "skipped"]
             ELSE [class |-> "imported",
                   record |->
                        [id |-> 0,
                         user_id |-> user_id,
                         title |-> title,
                         provider |-> Strip(entry.provider),
                         hours |-> FloatTable[entry.hours],
                         date_completed |-> date_completed,
                         category |-> Strip(entry.category),
                         description |-> Strip(entry.description),
                         is_napfa_approved |-> ~csv /\ entry.is_napfa_approved,
                         is_ethics_course |-> ~csv /\ entry.is_ethics_course,
                         napfa_subject_area |->
                            IF csv THEN NoText
                            ELSE Strip(entry.napfa_subject_area)]]

\* the row loop and the commit of an import that runs alone, from the given
\* table: the table after it and its counters (imported, skipped, and for
\* import_ce the blank rows it passes over), or raised, which leaves the table
RECURSIVE ImportAlone(_, _, _, _)
ImportAlone(table, entries, user_id, csv) ==
    IF entries = <<>>
    THEN [table |-> table, imported |-> 0, skipped |-> 0, blank |-> 0,
          raised |-> FALSE]
    ELSE LET out == ImportRow(table, Head(entries), user_id, csv)
         IN  IF out.class = "raised"
             THEN [table |-> table, imported |-> 0, skipped |-> 0, blank |-> 0,
                   raised |-> TRUE]
             ELSE LET rest ==
                        ImportAlone(IF out.class = "imported"
                                    THEN Append(table, [out.record EXCEPT
                                                            !.id = NextId(table)])
                                    ELSE table,
                                    Tail(entries), user_id, csv)
                  IN  IF rest.raised THEN [rest EXCEPT !.table = table]
                      ELSE [rest EXCEPT ![out.class] = @ + 1]

\* POST /delete_ce/<ce_id> with the given session, up to the commit: the
\* record is read and its owner compared with the session, and the DELETE
\* waits for the commit
DeleteCE(session, ce_id) ==
    /\ Cardinality(pending) < MaxInFlight
    /\ IF \/ session.user_id = 0
          \/ ~\E i \in 1..Len(records) :
                records[i].id = ce_id /\ records[i].user_id = session.user_id
       THEN UNCHANGED pending
       ELSE pending' = pending \cup
                {[request |-> "delete", nr |-> DbSession, session |-> session,
                  rows |-> SelectSeq(records, LAMBDA r : r.id = ce_id)]}
    /\ UNCHANGED <<now, users, designations, records, call, result>>

\* what add_ce answers
AddCEAnswer(session, form) ==
    IF session.user_id = 0
    THEN Redirect("auth.login", "Please log in to add CE records.")
    ELSE IF form.title = <<>> \/ form.hours = "" \/ form.date_completed = NoDate
    THEN Redirect("ce_records.dashboard", "Title, hours, and date completed are required.")
    ELSE IF \/ form.hours \notin DOMAIN FloatTable
            \/ ~ValidDate(form.date_completed[1], form.date_completed[2],
                          form.date_completed[3])
    THEN Redirect("ce_records.dashboard", "Invalid hours or date format.")
    ELSE Redirect("ce_records.dashboard", "CE record added successfully!")

\* what edit_ce answers; an accepted form is answered by its commit
EditCEAnswer(session, ce_id, form) ==
    IF session.user_id = 0
    THEN Redirect("auth.login", "Please log in.")
    ELSE IF ~\E i \in 1..Len(records) : records[i].id = ce_id
    THEN Abort("404")
    ELSE IF ~\E i \in 1..Len(records) :
                records[i].id = ce_id /\ records[i].user_id = session.user_id
    THEN Redirect("ce_records.dashboard", "You do not have permission to edit this record.")
    ELSE IF form.title = <<>> \/ form.hours = "" \/ form.date_completed = NoDate
    THEN Redirect("ce_records.dashboard", "Title, hours, and date completed are required.")
    ELSE IF \/ form.hours \notin DOMAIN FloatTable
            \/ ~ValidDate(form.date_completed[1], form.date_completed[2],
                          form.date_completed[3])
    THEN Redirect("ce_records.dashboard", "Invalid hours or date format.")
    ELSE NoResponse

\* what delete_ce answers; an accepted request is answered by its commit
DeleteCEAnswer(session, ce_id) ==
    IF session.user_id = 0
    THEN Redirect("auth.login", "Please log in.")
    ELSE IF ~\E i \in 1..Len(records) : records[i].id = ce_id
    THEN Abort("404")
    ELSE IF ~\E i \in 1..Len(records) :
                records[i].id = ce_id /\ records[i].user_id = session.user_id
    THEN Redirect("ce_records.dashboard", "You do not have permission to delete this record.")
    ELSE NoResponse

\* the answer of an import that ran its row loop: the message carries the
\* two counters
Imported(message, tally) ==
    [kind |-> "redirect", to |-> "ce_records.dashboard", flash |-> message,
     imported |-> tally.imported, skipped |-> tally.skipped]

\* the transaction of an import whose file was accepted: the entries of the
\* file, those the row loop has still to read (left), the records it has
\* added to its session (rows) and its counters
ImportBegun(request, session, entries) ==
    [request |-> request, nr |-> DbSession, session |-> session,
     at |-> IF entries = <<>> THEN "commit" ELSE "rows",
     entries |-> entries, left |-> entries, rows |-> <<>>,
     tally |-> [imported |-> 0, skipped |-> 0, blank |-> 0]]

\* POST /import_ce with the given session and uploaded file, up to the row
\* loop: the tests of the session, the file name and the header
ImportCE(session, file) ==
    /\ Cardinality(pending) < MaxInFlight
    /\ IF \/ session.user_id = 0
          \/ file.filename = <<>>
          \/ ~LowerEndsWith(file.filename, <<".", "c", "s", "v">>)
          \/ file.fieldnames = <<>>
          \/ ~({"title", "hours"} \subseteq
                    {file.fieldnames[k] : k \in 1..Len(file.fieldnames)})
       THEN UNCHANGED pending
       ELSE LET rows == [i \in 1..Len(file.rows) |->
                            CsvRow(file.fieldnames, file.rows[i])]
            IN  /\ Len(ImportAlone(records, rows, session.user_id, TRUE).table)
                        <= MaxRecords
                /\ pending' = pending \cup {ImportBegun("import_ce", session, rows)}
    /\ UNCHANGED <<now, users, designations, records, call, result>>

\* POST /import_backup with the given session and uploaded file, up to the
\* row loop
ImportBackup(session, file) ==
    /\ Cardinality(pending) < MaxInFlight
    /\ IF \/ session.user_id = 0
          \/ file.filename = <<>>
          \/ ~LowerEndsWith(file.filename, <<".", "j", "s", "o", "n">>)
       THEN UNCHANGED pending
       ELSE /\ Len(ImportAlone(records, file.ce_records, session.user_id,
                               FALSE).table) <= MaxRecords
            /\ pending' = pending \cup
                    {ImportBegun("import_backup", session, file.ce_records)}
    /\ UNCHANGED <<now, users, designations, records, call, result>>

\* one pass of the row loop of the import t: the duplicate query reads the
\* table as it is now, with the records this request has added to its
\* session; the record is added to the session, or the row counted as
\* skipped, or passed over; after the last row the request comes to its
\* commit.  A pass that raises ends the request: the session is rolled back
ImportRows(t) ==
    /\ t.request \in {"import_ce", "import_backup"}
    /\ t.at = "rows"
    /\ LET out == ImportRow(records \o t.rows, Head(t.left), t.session.user_id,
                            t.request = "import_ce")
       IN  pending' =
                IF out.class = "raised" THEN pending \ {t}
                ELSE Continued(t,
                        [t EXCEPT
                            !.left = Tail(@),
                            !.rows = IF out.class = "imported"
                                     THEN Append(@, out.record) ELSE @,
                            !.tally[out.class] = @ + 1,
                            !.at = IF Tail(t.left) = <<>> THEN "commit" ELSE "rows"])
    /\ UNCHANGED <<now, users, designations, records, call, result>>

\* what import_ce answers up to its row loop; a file whose rows are read is
\* answered by its commit, or by the pass that raises
ImportCEAnswer(session, file) ==
    IF session.user_id = 0
    THEN Redirect("auth.login", "Please log in.")
    ELSE IF file.filename = <<>>
    THEN Redirect("ce_records.dashboard", "No file selected.")
    ELSE IF ~LowerEndsWith(file.filename, <<".", "c", "s", "v">>)
    THEN Redirect("ce_records.dashboard", "Please upload a CSV file.")
    ELSE IF file.fieldnames = <<>>
    THEN Redirect("ce_records.dashboard", "CSV file is empty or has no headers.")
    ELSE IF ~({"title", "hours"} \subseteq
                    {file.fieldnames[k] : k \in 1..Len(file.fieldnames)})
    THEN Redirect("ce_records.dashboard", "CSV must have at least Title and Hours columns.")
    ELSE NoResponse

\* what import_backup answers up to its row loop
ImportBackupAnswer(session, file) ==
    IF session.user_id = 0
    THEN Redirect("auth.login", "Please log in.")
    ELSE IF file.filename = <<>>
    THEN Redirect("ce_records.dashboard", "No file selected.")
    ELSE IF ~LowerEndsWith(file.filename, <<".", "j", "s", "o", "n">>)
    THEN Redirect("ce_records.dashboard", "Please upload a JSON file.")
    ELSE NoResponse

\* what a pass of the row loop of the import t answers: nothing yet, or,
\* when it raises, the error message (without the text of the exception)
ImportRowsAnswer(t) ==
    IF ImportRow(records \o t.rows, Head(t.left), t.session.user_id,
                 t.request = "import_ce").class = "raised"
    THEN Redirect("ce_records.dashboard",
                  IF t.request = "import_ce" THEN "Error importing CSV"
                  ELSE "Error restoring backup")
    ELSE response

\* what the request of transaction t answers once its commit has run (the
\* messages of manage_designations without the name of the designation)
CommitAnswer(t) ==
    IF t.request = "register"
    THEN Redirect("auth.login", "Registration successful! Please log in.")
    ELSE IF t.request = "add"
    THEN Redirect("designations.manage_designations", "designation added successfully!")
    ELSE IF t.request = "remove"
    THEN Redirect("designations.manage_designations", "designation removed successfully!")
    ELSE IF t.request = "update_email"
    THEN Redirect("profile.profile", "Email updated successfully!")
    ELSE IF t.request = "change_password"
    THEN Redirect("profile.profile", "Password changed successfully!")
    ELSE IF t.request = "forgot_password"
    THEN [kind |-> "redirect", to |-> "auth.reset_password", flash |-> "",
          token |-> t.token]
    ELSE IF t.request = "reset_password"
    THEN Redirect("auth.login", "Your password has been reset! Please log in.")
    ELSE IF t.request = "edit"
    THEN Redirect("ce_records.dashboard", "CE record updated successfully!")
    ELSE IF t.request = "delete"
    THEN Redirect("ce_records.dashboard", "CE record deleted successfully!")
    ELSE IF t.request = "import_ce"
    THEN Imported("Successfully imported", t.tally)
    ELSE Imported("Successfully restored", t.tally)

\* the commit of transaction t answers its request: the success message, or
\* 500 when the database raised
Committed(t) ==
    /\ response' = IF \/ /\ users' = users /\ designations' = designations
                         /\ (BreaksUnique(t) \/ TooLong(t))
                      \/ Stale(t)
                   THEN Abort("500") ELSE CommitAnswer(t)
    /\ UNCHANGED <<cookie, clock, issued>>

\* check_password_hash(password_hash, password)
check_password_hash(password_hash, password) ==
    password_hash = generate_password_hash(password)

\* the session after POST /login with the given form
LoginSession(session, form) ==
    IF \/ session.user_id # 0
       \/ form.username = <<>> \/ form.password = <<>>
       \/ ~\E i \in 1..Len(users) : users[i].username = form.username
    THEN session
    ELSE LET user == CHOOSE u \in {users[i] : i \in 1..Len(users)} :
                        u.username = form.username
         IN  IF check_password_hash(user.password_hash, form.password)
             THEN Session(user.id, IF user.is_napfa_member THEN "True" ELSE "False")
             ELSE session

\* what login answers
LoginAnswer(session, form) ==
    IF session.user_id # 0 THEN Redirect("ce_records.dashboard", "")
    ELSE IF form.username = <<>> \/ form.password = <<>>
    THEN Render("login.html", "Please enter both username and password.")
    ELSE IF ~\E i \in 1..Len(users) : users[i].username = form.username
    THEN Render("login.html", "User not found. Please check your username or register for a new account.")
    ELSE IF LoginSession(session, form) # session
    THEN Redirect("ce_records.dashboard", "Login successful!")
    ELSE Render("login.html", "Invalid password. Please try again.")

\* the store stays as it is
Idle == UNCHANGED <<now, users, designations, records, pending, call, result>>

\* the browser gets the given answer to a request made with its cookie
Answered(answer) == response' = answer /\ UNCHANGED <<cookie, clock, issued>>

\* POST /login from the browser
Login(form) ==
    /\ cookie' = LoginSession(cookie, form)
    /\ response' = LoginAnswer(cookie, form)
    /\ Idle /\ UNCHANGED <<clock, issued>>

\* GET /logout from the browser: session.clear()
Logout ==
    /\ cookie' = NoSession
    /\ response' = Redirect("auth.login", "You have been logged out.")
    /\ Idle /\ UNCHANGED <<clock, issued>>

Text_hunter == <<"h", "u", "n", "t", "e", "r">>

LoginForm(username, password) == [username |-> username, password |-> password]

\* two accounts: ann with password secret, bob with password hunter
TwoAccounts ==
    << Account(1, Text_ann, Text_ann, generate_password_hash(Text_secret),
               TRUE, <<2024, 4, 1>>, <<2023, 3, 10>>),
       Account(2, Text_bob, Text_bob, generate_password_hash(Text_hunter),
               FALSE, NoDate, <<2023, 3, 10>>) >>

RecordForms ==
    { Form(Text_Tax, <<>>, "30", DateInAll, "", ""),
      Form(Text_Tax, <<>>, "0", DateInAll, "", ""),
      Form(<<>>, <<>>, "30", DateInAll, "", ""),
      Form(Text_Tax, <<>>, "abc", DateInAll, "", ""),
      Form(Text_Tax, <<>>, "2", <<2025, 2, 30>>, "", "") }

Entry(title, hours, date, napfa, ethics) ==
    [title |-> title, provider |-> <<>>, hours |-> hours, date_completed |-> date,
     category |-> <<>>, description |-> <<>>, is_napfa_approved |-> napfa,
     is_ethics_course |-> ethics, napfa_subject_area |-> <<>>]

\* entries of uploaded files: one that is stored, the same with blanks around
\* the title, entries with hours of zero, below zero, not a number, absent,
\* without a date, with a date that is none, and a blank one
Entries ==
    { Entry(Text_Tax, "30", DateInAll, FALSE, FALSE),
      Entry(<<" ">> \o Text_Tax, "30", DateInAll, FALSE, FALSE),
      Entry(Text_Ethics, "2", NoDate, FALSE, TRUE),
      Entry(Text_Tax, "0", DateInAll, FALSE, FALSE),
      Entry(Text_Tax, "-5", DateInAll, FALSE, FALSE),
      Entry(Text_Tax, "abc", DateInAll, FALSE, FALSE),
      Entry(Text_Tax, "", DateInAll, FALSE, FALSE),
      Entry(<<>>, "30", DateInAll, FALSE, FALSE),
      Entry(Text_Ethics, "2", <<2025, 2, 30>>, FALSE, TRUE),
      Entry(<<" ">>, "", DateInAll, FALSE, FALSE) }

\* files of no entry, of one entry, and of two entries where the second may
\* repeat the first
EntryLists ==
    {<<>>} \cup {<<e>> : e \in Entries}
           \cup {<<e, f>> : e, f \in { Entry(Text_Tax, "30", DateInAll, FALSE, FALSE),
                                        Entry(<<" ">> \o Text_Tax, "30", DateInAll, FALSE, FALSE),
                                        Entry(Text_Ethics, "2", NoDate, FALSE, TRUE),
                                        Entry(Text_Tax, "0", DateInAll, FALSE, FALSE) }}

\* the header of the CSV files: title, hours and date
Header == <<"title", "hours", "date_completed">>

\* the lines of a CSV file that carry all three fields of the given entries
Lines(entries) == [i \in 1..Len(entries) |-> Line(entries[i], 3)]

\* CSV files whose lines end before the last column of the header: one line
\* without its date, and a full line followed by one that has a title only
CutLines ==
    { <<Line(Entry(Text_Tax, "30", NoDate, FALSE, FALSE), 2)>>,
      <<Line(Entry(Text_Tax, "30", DateInAll, FALSE, FALSE), 3),
        Line(Entry(Text_Ethics, "", NoDate, FALSE, FALSE), 1)>> }

\* uploaded CSV files: lines of all fields, lines cut short, a file without
\* a date column, and the files that are refused (not a .csv name, no name,
\* no hours column, an empty file)
CsvFiles ==
    {[filename |-> <<"r", ".", "C", "S", "V">>, fieldnames |-> Header,
      rows |-> Lines(rows)] : rows \in EntryLists}
    \cup {[filename |-> <<"r", ".", "c", "s", "v">>, fieldnames |-> Header,
           rows |-> rows] : rows \in CutLines}
    \cup {[filename |-> <<"r", ".", "c", "s", "v">>, fieldnames |-> <<"title", "hours">>,
           rows |-> <<Line(Entry(Text_Tax, "30", DateInAll, FALSE, FALSE), 2)>>],
          [filename |-> <<"r", ".", "t", "x", "t">>, fieldnames |-> <<"title", "hours">>,
           rows |-> <<Line(Entry(Text_Tax, "30", DateInAll, FALSE, FALSE), 2)>>],
          [filename |-> <<>>, fieldnames |-> <<"title", "hours">>,
           rows |-> <<Line(Entry(Text_Tax, "30", DateInAll, FALSE, FALSE), 2)>>],
          [filename |-> <<"r", ".", "c", "s", "v">>,
           fieldnames |-> <<"title", "date_completed">>,
           rows |-> <<Line(Entry(Text_Tax, "30", DateInAll, FALSE, FALSE), 2)>>],
          [filename |-> <<"r", ".", "c", "s", "v">>, fieldnames |-> <<>>,
           rows |-> <<>>]}

\* backup files whose hours are an integer too large for a float: alone, and
\* after an entry that is kept
HugeEntries ==
    { <<Entry(Text_Tax, "10**400", DateInAll, FALSE, FALSE)>>,
      <<Entry(Text_Tax, "30", DateInAll, FALSE, FALSE),
        Entry(Text_Ethics, "10**400", DateInAll, FALSE, FALSE)>> }

BackupFiles ==
    {[filename |-> <<"b", ".", "j", "s", "o", "n">>, ce_records |-> entries] :
        entries \in EntryLists \cup HugeEntries}
    \cup {[filename |-> <<"b", ".", "c", "s", "v">>,
           ce_records |-> <<Entry(Text_Tax, "30", DateInAll, FALSE, FALSE)>>]}

SessionEntries == <<Entry(Text_Tax, "30", DateInAll, FALSE, FALSE)>>

SessionCsvFile ==
    [filename |-> <<"r", ".", "c", "s", "v">>,
     fieldnames |-> Header, rows |-> Lines(SessionEntries)]

SessionBackupFile ==
    [filename |-> <<"b", ".", "j", "s", "o", "n">>, ce_records |-> SessionEntries]

InitRecords ==
    /\ now = AggToday
    /\ users = TwoAccounts
    /\ designations = <<>>
    /\ records = <<>>
    /\ pending = {}
    /\ call = NoCall
    /\ result = None
    /\ cookie = NoSession
    /\ response = NoResponse
    /\ clock = 0
    /\ issued = {}

\* the record runs import files of one entry, the stored one or one without
\* hours, the files that raise, and the files that are refused
ShortEntryLists ==
    { <<Entry(Text_Ethics, "2", NoDate, FALSE, TRUE)>>,
      <<Entry(Text_Tax, "", DateInAll, FALSE, FALSE)>> }

ShortCsvFiles ==
    {file \in CsvFiles :
        \/ \E entries \in ShortEntryLists : file.rows = Lines(entries)
        \/ file.filename # <<"r", ".", "C", "S", "V">>}

ShortBackupFiles ==
    {file \in BackupFiles :
        file.ce_records \in ShortEntryLists \cup HugeEntries
            \/ file.filename # <<"b", ".", "j", "s", "o", "n">>}

\* Record runs: edit_ce and delete_ce read the table in one step and write at
\* their commit in a later one; an import reads the table once for each row
\* of its file.  A delete_ce and an edit_ce of record 1 are sent at any time,
\* also while other requests are in flight; the other edits and the imports
\* are sent when nothing is.

\* the logins of the two users
LoginForms ==
    { LoginForm(Text_ann, Text_secret), LoginForm(Text_bob, Text_hunter) }

\* the forms of the edit_ce requests that are sent while another request
\* waits: one changes the title of the stored record, one its hours
EditForms ==
    { Form(Text_Ethics, <<>>, "30", DateInAll, "", ""),
      Form(Text_Tax, <<>>, "2", DateInAll, "", "") }

NextRecords ==
    \/ \E form \in LoginForms : Login(form)
    \/ Logout
    \/ \E form \in RecordForms :
            AddCE(cookie, form) /\ Answered(AddCEAnswer(cookie, form))
    \/ \E ce_id \in 1..MaxRecords, form \in RecordForms :
            /\ Settled
            /\ EditCE(cookie, ce_id, form) /\ Answered(EditCEAnswer(cookie, ce_id, form))
    \/ \E form \in EditForms :
            EditCE(cookie, 1, form) /\ Answered(EditCEAnswer(cookie, 1, form))
    \/ \E ce_id \in 1..MaxRecords :
            DeleteCE(cookie, ce_id) /\ Answered(DeleteCEAnswer(cookie, ce_id))
    \/ \E file \in ShortCsvFiles :
            /\ Settled
            /\ ImportCE(cookie, file) /\ Answered(ImportCEAnswer(cookie, file))
    \/ \E file \in ShortBackupFiles :
            /\ Settled
            /\ ImportBackup(cookie, file) /\ Answered(ImportBackupAnswer(cookie, file))
    \/ \E t \in pending : ImportRows(t) /\ Answered(ImportRowsAnswer(t))
    \/ \E t \in pending : Commit(t) /\ Committed(t)

SpecRecords == InitRecords /\ [][NextRecords]_vars

\* Import runs: the two imports with every file, between logins of the two
\* users, add_ce and delete_ce, sent when nothing is in flight, and the
\* imports of the one-row file, sent at any time
ImportRecordForms == { Form(Text_Tax, <<>>, "30", DateInAll, "", "") }

NextImports ==
    \/ \E form \in LoginForms : Settled /\ Login(form)
    \/ Settled /\ Logout
    \/ \E form \in ImportRecordForms :
            Settled /\ AddCE(cookie, form) /\ Answered(AddCEAnswer(cookie, form))
    \/ \E ce_id \in 1..MaxRecords :
            /\ Settled
            /\ DeleteCE(cookie, ce_id) /\ Answered(DeleteCEAnswer(cookie, ce_id))
    \/ \E file \in CsvFiles :
            /\ Settled
            /\ ImportCE(cookie, file) /\ Answered(ImportCEAnswer(cookie, file))
    \/ \E file \in BackupFiles :
            /\ Settled
            /\ ImportBackup(cookie, file) /\ Answered(ImportBackupAnswer(cookie, file))
    \/ ImportCE(cookie, SessionCsvFile)
            /\ Answered(ImportCEAnswer(cookie, SessionCsvFile))
    \/ ImportBackup(cookie, SessionBackupFile)
            /\ Answered(ImportBackupAnswer(cookie, SessionBackupFile))
    \/ \E t \in pending : ImportRows(t) /\ Answered(ImportRowsAnswer(t))
    \/ \E t \in pending : Commit(t) /\ Committed(t)

SpecImports == InitRecords /\ [][NextImports]_vars

----------------------------------------------------------------------------
(* Session requests: every page that needs a login, asked for by a browser  *)
(* that logs in and out                                                      *)

\* the account of a session
SessionUser(session) ==
    CHOOSE u \in {users[i] : i \in 1..Len(users)} : u.id = session.user_id

\* POST /toggle_napfa_tracking from the browser:
\* session['show_napfa_tracking'] = not session.get('show_napfa_tracking', False)
ToggleNapfaTracking ==
    /\ cookie' = IF cookie.user_id = 0 THEN cookie
                  ELSE [cookie EXCEPT !.show_napfa_tracking =
                            IF cookie.show_napfa_tracking = "True"
                            THEN "False" ELSE "True"]
    /\ response' = IF cookie.user_id = 0
                    THEN Redirect("auth.login", "Please log in.")
                    ELSE Redirect("ce_records.dashboard", "")
    /\ Idle /\ UNCHANGED <<clock, issued>>

\* what dashboard answers before its queries; a request that goes on to them
\* is answered when they are through
DashboardAnswer(session, filter_category) ==
    IF session.user_id = 0
    THEN Redirect("auth.login", "Please log in to access your dashboard.")
    ELSE IF ~\E i \in 1..Len(users) : users[i].id = session.user_id
    THEN Abort("500")
    ELSE NoResponse

\* what dashboard answers at a query of request t: nothing yet, the page, or
\* 500 when a calculator raised
DashboardStepAnswer(t) ==
    CHOOSE answer \in
        {IF "request" \in DOMAIN after THEN response
         ELSE IF HasRaised(after) THEN Abort("500")
         ELSE Render("dashboard.html", "") :
         after \in {DashboardAfter(t)}} : TRUE

\* GET /export_ce, GET /export_backup and GET /analytics read the store and
\* write nothing
ExportCE(session, filter_category) == Idle

\* GET /export_backup with the given session, up to its first query: the
\* account is read by the session's user id
ExportBackup(session) ==
    /\ Cardinality(pending) < MaxInFlight
    /\ IF \/ session.user_id = 0
          \/ ~\E i \in 1..Len(users) : users[i].id = session.user_id
       THEN UNCHANGED pending
       ELSE pending' = pending \cup
                {[request |-> "export_backup", nr |-> DbSession,
                  at |-> "ce_records", session |-> session,
                  user |-> SessionUser(session), ce_records |-> <<>>]}
    /\ UNCHANGED <<now, users, designations, records, call, result>>

\* the next query of the export_backup request t: the records of the user,
\* newest first, then the designations, after which the file is built
ExportBackupStep(t) ==
    /\ t.request = "export_backup"
    /\ pending' =
            IF t.at = "ce_records"
            THEN Continued(t, [t EXCEPT
                                !.ce_records =
                                    OrderByDateDesc(DashboardQuery(t.user.id, <<>>)),
                                !.at = "designations"])
            ELSE pending \ {t}
    /\ UNCHANGED <<now, users, designations, records, call, result>>

Analytics(session) == Idle

\* what export_ce answers: the session user's records, newest first, as rows;
\* for a session whose account is gone user.id raises
ExportCEAnswer(session, filter_category) ==
    IF session.user_id = 0
    THEN Redirect("auth.login", "Please log in.")
    ELSE IF ~\E i \in 1..Len(users) : users[i].id = session.user_id
    THEN Abort("500")
    ELSE [kind |-> "text/csv", to |-> "", flash |-> "",
          rows |-> OrderByDateDesc(DashboardQuery(session.user_id, filter_category))]

\* what export_backup answers up to its first query; for a session whose
\* account is gone user.id raises
ExportBackupAnswer(session) ==
    IF session.user_id = 0
    THEN Redirect("auth.login", "Please log in.")
    ELSE IF ~\E i \in 1..Len(users) : users[i].id = session.user_id
    THEN Abort("500")
    ELSE NoResponse

\* what a query of the export_backup request t answers: nothing yet, or,
\* after the last, the file: the account and the records as the request read
\* them and the designations as they are now; a text column that holds NULL
\* is written as ''
ExportBackupStepAnswer(t) ==
    IF t.at = "ce_records" THEN response
    ELSE [kind |-> "application/json", to |-> "", flash |-> "",
          user |-> [username |-> t.user.username,
                    email |-> t.user.email,
                    is_napfa_member |-> t.user.is_napfa_member,
                    napfa_join_date |-> t.user.napfa_join_date],
          designations |-> QueryDesignations(t.user.id),
          ce_records |->
            [i \in 1..Len(t.ce_records) |->
                [t.ce_records[i] EXCEPT
                    !.provider = OrEmpty(@),
                    !.category = OrEmpty(@),
                    !.description = OrEmpty(@),
                    !.napfa_subject_area = OrEmpty(@)]]]

Text_Uncategorized == <<"U", "n", "c", "a", "t", "e", "g", "o", "r", "i", "z", "e", "d">>

\* what analytics answers: totals of the session user's records; for a
\* session whose account is gone user.id raises
AnalyticsAnswer(session) ==
    IF session.user_id = 0
    THEN Redirect("auth.login", "Please log in to view analytics.")
    ELSE IF ~\E i \in 1..Len(users) : users[i].id = session.user_id
    THEN Abort("500")
    ELSE LET ce_records == OrderByDateDesc(DashboardQuery(session.user_id, <<>>))
             cat(r) == IF r.category = <<>> THEN Text_Uncategorized ELSE r.category
             cats == {cat(ce_records[i]) : i \in 1..Len(ce_records)}
         IN  [kind |-> "render", to |-> "analytics.html", flash |-> "",
              category_hours |->
                  [c \in cats |->
                      SumHours(SelectSeq(ce_records, LAMBDA r : cat(r) = c))],
              total_hours |-> SumHours(ce_records),
              total_records |-> Len(ce_records),
              categories_count |-> Cardinality(cats)]

\* the message with which profile refuses an update_email form before it
\* looks the address up, "" when it goes on to that query
UpdateEmailError(form) ==
    LET new_email == Strip(form.email)
    IN  IF new_email = <<>> THEN "Email is required."
        ELSE IF ~Contains(new_email, <<"@">>) \/ ~Contains(new_email, <<".">>)
        THEN "Please enter a valid email address."
        ELSE ""

\* the message with which update_email request t is refused once
\* User.query.filter_by(email=new_email).first() has answered, "" when the
\* address is accepted: the holder of the address is read from the table as it
\* is now, and compared with the account as the request read it at its start
ExistingEmailError(t) ==
    IF \E i \in 1..Len(users) :
            users[i].email = t.new_email /\ users[i].id # t.user.id
    THEN "That email is already in use by another account."
    ELSE IF t.new_email = t.user.email
    THEN "That is already your current email."
    ELSE ""

\* the message with which profile refuses a change_password form, "" when the
\* form is accepted
ChangePasswordError(user, form) ==
    IF form.current_password = <<>> THEN "Current password is required."
    ELSE IF ~check_password_hash(user.password_hash, form.current_password)
    THEN "Current password is incorrect."
    ELSE IF form.new_password = <<>> THEN "New password is required."
    ELSE IF Len(form.new_password) < 6
    THEN "New password must be at least 6 characters long."
    ELSE IF form.new_password # form.confirm_password
    THEN "New passwords do not match."
    ELSE ""

\* GET or POST /profile up to its next query or its commit: the account is
\* read by the session's user id; update_email goes on to look the address up,
\* change_password validates against the account as read, and its UPDATE waits
\* for the commit
Profile(session, form) ==
    /\ Cardinality(pending) < MaxInFlight
    /\ IF \/ session.user_id = 0
          \/ ~\E i \in 1..Len(users) : users[i].id = session.user_id
       THEN UNCHANGED <<users, pending>>
       ELSE IF form.action = "update_email"
       THEN /\ users' = users
            /\ IF UpdateEmailError(form) # ""
               THEN pending' = pending
               ELSE pending' = pending \cup
                        {[request |-> "update_email", nr |-> DbSession,
                          at |-> "existing",
                          user |-> SessionUser(session),
                          new_email |-> Strip(form.email),
                          rows |-> <<>>]}
       ELSE IF form.action = "change_password"
       THEN /\ users' = users
            /\ IF ChangePasswordError(SessionUser(session), form) # ""
               THEN pending' = pending
               ELSE pending' = pending \cup
                        {[request |-> "change_password", nr |-> DbSession,
                          user |-> [SessionUser(session) EXCEPT
                                        !.password_hash =
                                            generate_password_hash(form.new_password)],
                          rows |-> <<>>]}
       ELSE UNCHANGED <<users, pending>>
    /\ UNCHANGED <<now, designations, records, call, result>>

\* the second query of update_email request t, for the holder of the new
\* address: the request ends when the address belongs to another account or
\* is the one the request read for its own account, and sets user.email and
\* goes to its commit otherwise
ProfileEmail(t) ==
    /\ t \in pending
    /\ t.request = "update_email" /\ t.at = "existing"
    /\ IF ExistingEmailError(t) # ""
       THEN pending' = pending \ {t}
       ELSE pending' = Continued(t, [t EXCEPT !.user.email = t.new_email,
                                              !.at = "commit"])
    /\ UNCHANGED <<now, users, designations, records, call, result>>

\* what profile answers up to its next query; an accepted form is answered
\* later, by the query for the address or by the commit, and a session whose
\* account is gone fails where the handler reads the account
ProfileAnswer(session, form) ==
    IF session.user_id = 0
    THEN Redirect("auth.login", "Please log in to access your profile.")
    ELSE IF ~\E i \in 1..Len(users) : users[i].id = session.user_id
    THEN IF form.action = "update_email" /\ Strip(form.email) = <<>>
         THEN Redirect("profile.profile", "Email is required.")
         ELSE IF /\ form.action = "update_email"
                 /\ \/ ~Contains(Strip(form.email), <<"@">>)
                    \/ ~Contains(Strip(form.email), <<".">>)
         THEN Redirect("profile.profile", "Please enter a valid email address.")
         ELSE IF form.action = "change_password" /\ form.current_password = <<>>
         THEN Redirect("profile.profile", "Current password is required.")
         ELSE Abort("500")
    ELSE IF form.action = "update_email"
    THEN IF UpdateEmailError(form) # ""
         THEN Redirect("profile.profile", UpdateEmailError(form))
         ELSE NoResponse
    ELSE IF form.action = "change_password"
    THEN IF ChangePasswordError(SessionUser(session), form) # ""
         THEN Redirect("profile.profile", ChangePasswordError(SessionUser(session), form))
         ELSE NoResponse
    ELSE Render("profile.html", "")

\* what update_email request t answers at the query for its address: the
\* refusal, or nothing yet
ProfileEmailAnswer(t) ==
    IF ExistingEmailError(t) # ""
    THEN Redirect("profile.profile", ExistingEmailError(t))
    ELSE response

\* what manage_designations answers to action=add; an accepted form is
\* answered by its commit
ManageDesignationsAddAnswer(session, form) ==
    IF session.user_id = 0
    THEN Redirect("auth.login", "Please log in to manage your designations.")
    ELSE IF ~\E i \in 1..Len(users) : users[i].id = session.user_id
    THEN Abort("500")
    ELSE IF form.designation \notin Codes
    THEN Redirect("designations.manage_designations", "Invalid designation.")
    ELSE IF \E i \in 1..Len(designations) :
                /\ designations[i].user_id = session.user_id
                /\ designations[i].designation = form.designation
    THEN Redirect("designations.manage_designations", "You already have the designation.")
    ELSE IF form.designation = "CFP" /\ form.cfp_birth_month = ""
    THEN Redirect("designations.manage_designations", "Birth month is required for CFP designation.")
    ELSE IF form.designation = "CFP" /\ form.cfp_birth_month \notin DOMAIN IntTable
    THEN Redirect("designations.manage_designations", "Invalid birth month.")
    ELSE IF /\ form.designation = "CFP"
            /\ \/ IntTable[form.cfp_birth_month] < 1
               \/ IntTable[form.cfp_birth_month] > 12
    THEN Redirect("designations.manage_designations", "Birth month must be between 1 and 12.")
    ELSE IF form.designation = "CPA" /\ form.cpa_state = <<>>
    THEN Redirect("designations.manage_designations", "State is required for CPA designation.")
    ELSE IF /\ form.designation = "CPA"
            /\ (Len(form.cpa_state) # 2 \/ ~IsAlpha(form.cpa_state))
    THEN Redirect("designations.manage_designations", "Invalid state abbreviation. Please use a 2-letter state code (e.g., CA, NY, TX).")
    ELSE NoResponse

\* what manage_designations answers to action=remove; an accepted request is
\* answered by its commit
ManageDesignationsRemoveAnswer(session, designation_id) ==
    IF session.user_id = 0
    THEN Redirect("auth.login", "Please log in to manage your designations.")
    ELSE IF ~\E i \in 1..Len(users) : users[i].id = session.user_id
    THEN Abort("500")
    ELSE IF ~\E i \in 1..Len(designations) : designations[i].id = designation_id
    THEN Abort("404")
    ELSE IF ~\E i \in 1..Len(designations) :
                /\ designations[i].id = designation_id
                /\ designations[i].user_id = session.user_id
    THEN Redirect("designations.manage_designations", "You do not have permission to remove this designation.")
    ELSE NoResponse

ProfileForm(action, email, current_password, new_password, confirm_password) ==
    [action |-> action, email |-> email, current_password |-> current_password,
     new_password |-> new_password, confirm_password |-> confirm_password]

Text_ann_mail == <<"a", "@", "x", ".", "y">>

\* the forms of the session runs: a page view and a password change, the
\* logins of one user, one record form, and files of one entry
SessionProfileForms ==
    { ProfileForm("", <<>>, <<>>, <<>>, <<>>),
      ProfileForm("change_password", <<>>, Text_secret, Text_hunter, Text_hunter) }

SessionLoginForms ==
    { LoginForm(Text_ann, Text_secret),
      LoginForm(Text_ann, Text_hunter),
      LoginForm(Text_cyd, Text_secret) }

SessionRecordForms == { Form(Text_Tax, <<>>, "30", DateInAll, "", "") }

SessionAddForms == { AddForm("CFP", "12", <<>>) }

InitSessions ==
    /\ now = AggToday
    /\ users = TwoAccounts
    /\ designations = <<>>
    /\ records = <<>>
    /\ pending = {}
    /\ call = NoCall
    /\ result = None
    /\ cookie = NoSession
    /\ response = NoResponse
    /\ clock = 0
    /\ issued = {}

\* the requests that write wait for their commit, which may run after a
\* logout; two password changes may wait at a time
NextSessions ==
    \/ \E form \in SessionLoginForms : Between /\ Login(form)
    \/ Logout
    \/ Between /\ ToggleNapfaTracking
    \/ Settled /\ Dashboard(cookie, <<>>) /\ Answered(DashboardAnswer(cookie, <<>>))
    \/ \E t \in pending : DashboardStep(t) /\ Answered(DashboardStepAnswer(t))
    \/ \E form \in SessionRecordForms :
            Between /\ AddCE(cookie, form) /\ Answered(AddCEAnswer(cookie, form))
    \/ \E form \in SessionRecordForms :
            /\ Settled
            /\ EditCE(cookie, 1, form) /\ Answered(EditCEAnswer(cookie, 1, form))
    \/ Settled /\ DeleteCE(cookie, 1) /\ Answered(DeleteCEAnswer(cookie, 1))
    \/ Settled /\ ImportCE(cookie, SessionCsvFile)
            /\ Answered(ImportCEAnswer(cookie, SessionCsvFile))
    \/ Settled /\ ImportBackup(cookie, SessionBackupFile)
            /\ Answered(ImportBackupAnswer(cookie, SessionBackupFile))
    \/ \E t \in pending : ImportRows(t) /\ Answered(ImportRowsAnswer(t))
    \/ Between /\ ExportCE(cookie, <<>>) /\ Answered(ExportCEAnswer(cookie, <<>>))
    \/ Between /\ ExportBackup(cookie) /\ Answered(ExportBackupAnswer(cookie))
    \/ \E t \in pending : ExportBackupStep(t) /\ Answered(ExportBackupStepAnswer(t))
    \/ Between /\ Analytics(cookie) /\ Answered(AnalyticsAnswer(cookie))
    \/ \E form \in SessionProfileForms :
            Between /\ Profile(cookie, form) /\ Answered(ProfileAnswer(cookie, form))
    \/ \E form \in SessionAddForms :
            /\ Settled
            /\ ManageDesignationsAdd(cookie, form)
            /\ Answered(ManageDesignationsAddAnswer(cookie, form))
    \/ Settled /\ ManageDesignationsRemove(cookie, 1)
            /\ Answered(ManageDesignationsRemoveAnswer(cookie, 1))
    \/ \E t \in pending : Commit(t) /\ Committed(t)

SpecSessions == InitSessions /\ [][NextSessions]_vars

----------------------------------------------------------------------------
(* Signup requests: register and the address change of profile, from        *)
(* several browsers at a time                                                *)

\* what register answers up to its query for the username; a form that
\* passes it is answered by the query for the email or by the commit
RegisterAnswer(session, form) ==
    IF session.user_id # 0 THEN Redirect("ce_records.dashboard", "")
    ELSE IF RegisterErrors(form) # {}
    THEN [kind |-> "render", to |-> "register.html", flash |-> "",
          errors |-> RegisterErrors(form)]
    ELSE IF \E i \in 1..Len(users) : users[i].username = Strip(form.username)
    THEN Render("register.html", "Username already exists.")
    ELSE NoResponse

\* what register answers at its query for the email
RegisterEmailAnswer(t) ==
    IF \E i \in 1..Len(users) : users[i].email = t.user.email
    THEN Render("register.html", "Email already exists.")
    ELSE response

\* a registration form as the browser posts it: with the checkbox
\* disclaimer_ack ticked ("on") or not ("")
Acknowledged(form, disclaimer_ack) ==
    [k \in DOMAIN form \cup {"disclaimer_ack"} |->
        IF k = "disclaimer_ack" THEN disclaimer_ack ELSE form[k]]

Text_bob_mail == <<"b", "@", "x", ".", "y">>

\* registrations of bob and cyd with a free address, with ann's address and
\* with ann's name, each with and without the acknowledgement
SignupForms ==
    { Acknowledged(form, disclaimer_ack) :
        form \in { RegisterForm(Text_bob, Text_bob_mail, Text_secret, Text_secret,
                                <<"CFP">>, "6", <<>>, "", NoDate),
                   RegisterForm(Text_cyd, <<" ">> \o Text_bob_mail, Text_secret,
                                Text_secret, <<>>, "", <<>>, "", NoDate),
                   RegisterForm(Text_bob, Text_ann_mail, Text_secret, Text_secret,
                                <<"CPA">>, "", <<"n", "y">>, "", NoDate),
                   RegisterForm(Text_ann, Text_bob_mail, Text_secret, Text_secret,
                                <<"CFP">>, "6", <<>>, "", NoDate),
                   RegisterForm(Text_bob, Text_bob_mail, Text_secret, Text_hunter,
                                <<>>, "", <<>>, "", NoDate) },
        disclaimer_ack \in {"", "on"} }

\* address changes: to a free address, to ann's, to one without a dot, to none
EmailForms ==
    { ProfileForm("update_email", Text_bob_mail \o <<" ">>, <<>>, <<>>, <<>>),
      ProfileForm("update_email", Text_ann_mail, <<>>, <<>>, <<>>),
      ProfileForm("update_email", <<"b", "@", "x">>, <<>>, <<>>, <<>>),
      ProfileForm("update_email", <<" ">>, <<>>, <<>>, <<>>) }

InitSignup ==
    /\ now = AggToday
    /\ users = <<Account(1, Text_ann, Text_ann_mail, generate_password_hash(Text_secret),
                         FALSE, NoDate, <<2023, 3, 10>>)>>
    /\ designations = <<>>
    /\ records = <<>>
    /\ pending = {}
    /\ call = NoCall
    /\ result = None
    /\ cookie = NoSession
    /\ response = NoResponse
    /\ clock = 0
    /\ issued = {}

NextSignup ==
    \/ \E session \in AccountSessions, form \in SignupForms :
            Register(session, form) /\ Answered(RegisterAnswer(session, form))
    \/ \E t \in pending : RegisterEmail(t) /\ Answered(RegisterEmailAnswer(t))
    \/ \E session \in AccountSessions, form \in EmailForms :
            Profile(session, form) /\ Answered(ProfileAnswer(session, form))
    \/ \E t \in pending : ProfileEmail(t) /\ Answered(ProfileEmailAnswer(t))
    \/ \E t \in pending : Commit(t) /\ Committed(t)

SpecSignup == InitSignup /\ [][NextSignup]_vars

----------------------------------------------------------------------------
(* Password resets: forgot_password issues a token that reset_password      *)
(* accepts for one hour; the time of day advances by half-hours              *)

\* one hour of the time of day
HourTicks == 2

\* datetime.now(timezone.utc).replace(tzinfo=None): the day and the time of day
UtcNow == <<now[1], now[2], now[3], clock>>

\* a < b for two datetimes
Earlier(a, b) ==
    \E k \in 1..4 : a[k] < b[k] /\ \A j \in 1..(k - 1) : a[j] = b[j]

\* the values uuid.uuid4().hex can return in the token runs
Token(n) == <<"t", ToString(n)>>

Tokens == {Token(n) : n \in 1..MaxTokens}

\* POST /forgot_password up to the commit: the account of the address is
\* read, uuid4 gives a fresh token, and the token and its expiry wait on the
\* account for the commit; nothing for another address or a logged-in browser
ForgotPassword(session, form, token) ==
    /\ Cardinality(pending) < MaxInFlight
    /\ token \in Tokens \ issued
    /\ IF \/ session.user_id # 0
          \/ Strip(form.email) = <<>>
          \/ ~\E i \in 1..Len(users) : users[i].email = Strip(form.email)
       THEN UNCHANGED <<pending, issued>>
       ELSE /\ issued' = issued \cup {token}
            /\ pending' = pending \cup
                {[request |-> "forgot_password", nr |-> DbSession,
                  token |-> token,
                  user |-> [(CHOOSE u \in {users[i] : i \in 1..Len(users)} :
                                u.email = Strip(form.email))
                            EXCEPT !.reset_token = token,
                                   !.reset_token_expiry =
                                        [UtcNow EXCEPT ![4] = @ + HourTicks]],
                  rows |-> <<>>]}
    /\ UNCHANGED <<now, users, designations, records, call, result>>

\* what forgot_password answers; a request for the address of an account is
\* answered by its commit
ForgotPasswordAnswer(session, form, token) ==
    IF session.user_id # 0 THEN Redirect("profile.profile", "")
    ELSE IF Strip(form.email) = <<>>
    THEN Render("forgot_password.html", "Please enter your email address.")
    ELSE IF ~\E i \in 1..Len(users) : users[i].email = Strip(form.email)
    THEN Render("forgot_password.html", "If an account with that email exists, a reset link has been generated.")
    ELSE NoResponse

\* the token is stored on a user and its expiry has not passed
ValidToken(token) ==
    \E i \in 1..Len(users) :
        /\ users[i].reset_token = token
        /\ users[i].reset_token_expiry # NoDate
        /\ ~Earlier(users[i].reset_token_expiry, UtcNow)

\* the message with which reset_password refuses a posted form, "" when the
\* form is accepted
ResetPasswordError(form) ==
    IF form.new_password = <<>> THEN "New password is required."
    ELSE IF Len(form.new_password) < 6
    THEN "Password must be at least 6 characters long."
    ELSE IF form.new_password # form.confirm_password
    THEN "Passwords do not match."
    ELSE ""

\* GET or POST /reset_password/<token> up to the commit: the account of the
\* token is read and its expiry compared with the time, and the new hash and
\* the cleared token wait on the account for the commit
ResetPassword(token, form) ==
    /\ Cardinality(pending) < MaxInFlight
    /\ IF \/ ~ValidToken(token)
          \/ form.method # "POST"
          \/ ResetPasswordError(form) # ""
       THEN UNCHANGED pending
       ELSE pending' = pending \cup
                {[request |-> "reset_password", nr |-> DbSession,
                  token |-> token,
                  user |-> [(CHOOSE u \in {users[i] : i \in 1..Len(users)} :
                                u.reset_token = token)
                            EXCEPT !.password_hash =
                                        generate_password_hash(form.new_password),
                                   !.reset_token = <<>>,
                                   !.reset_token_expiry = NoDate],
                  rows |-> <<>>]}
    /\ UNCHANGED <<now, users, designations, records, call, result>>

\* what reset_password answers; an accepted form is answered by its commit
ResetPasswordAnswer(token, form) ==
    IF ~ValidToken(token)
    THEN Redirect("auth.forgot_password", "This reset link is invalid or has expired.")
    ELSE IF form.method # "POST" THEN Render("reset_password.html", "")
    ELSE IF ResetPasswordError(form) # ""
    THEN Render("reset_password.html", ResetPasswordError(form))
    ELSE NoResponse

\* half an hour passes
TickClock ==
    /\ clock < MaxClock
    /\ clock' = clock + 1
    /\ Idle /\ UNCHANGED <<cookie, response, issued>>

ResetForm(method, new_password, confirm_password) ==
    [method |-> method, new_password |-> new_password,
     confirm_password |-> confirm_password]

\* the reset page, a new password, and forms that are refused
ResetForms ==
    { ResetForm("GET", <<>>, <<>>),
      ResetForm("POST", Text_hunter, Text_hunter),
      ResetForm("POST", Text_secret \o <<"2">>, Text_secret \o <<"2">>),
      ResetForm("POST", Text_hunter, Text_secret),
      ResetForm("POST", <<"h", "u", "n", "t">>, <<"h", "u", "n", "t">>),
      ResetForm("POST", <<>>, <<>>) }

\* addresses: of ann, of bob with blanks around it, of nobody, none
ForgotForms ==
    { [email |-> Text_ann], [email |-> <<" ">> \o Text_bob \o <<" ">>],
      [email |-> Text_cyd], [email |-> <<" ">>] }

\* logins of ann with her first and her new password, and of bob
TokenLoginForms ==
    { LoginForm(Text_ann, Text_secret),
      LoginForm(Text_ann, Text_hunter),
      LoginForm(Text_bob, Text_hunter) }

InitTokens ==
    /\ now = AggToday
    /\ users = TwoAccounts
    /\ designations = <<>>
    /\ records = <<>>
    /\ pending = {}
    /\ call = NoCall
    /\ result = None
    /\ cookie = NoSession
    /\ response = NoResponse
    /\ clock = 0
    /\ issued = {}

\* requests for a token run at the same time, and so do requests with a
\* token; a request for a token and a request with one run one after the
\* other
NextTokens ==
    \/ \E form \in TokenLoginForms : Login(form)
    \/ Logout
    \/ \E form \in ForgotForms, token \in Tokens :
            /\ \A t \in pending : t.request = "forgot_password"
            /\ ForgotPassword(cookie, form, token)
            /\ response' = ForgotPasswordAnswer(cookie, form, token)
            /\ UNCHANGED <<cookie, clock>>
    \/ \E token \in Tokens \cup {Token(0)}, form \in ResetForms :
            /\ \A t \in pending : t.request = "reset_password"
            /\ ResetPassword(token, form)
            /\ response' = ResetPasswordAnswer(token, form)
            /\ UNCHANGED <<cookie, clock, issued>>
    \/ \E t \in pending : Commit(t) /\ Committed(t)
    \/ TickClock

SpecTokens == InitTokens /\ [][NextTokens]_vars

----------------------------------------------------------------------------
(* Admin requests: toggle_admin behind admin_required, from several browsers *)
(* at a time                                                                 *)

\* os.environ.get('ADMIN_KEY', 'cetracker2025admin') with the variable unset
ADMIN_KEY == "cetracker2025admin"

\* admin_required lets the request through: the key of the query string is the
\* expected one, or the session's user exists and has is_admin set
AdminRequired(session, key) ==
    \/ key = ADMIN_KEY
    \/ /\ session.user_id # 0
       /\ \E i \in 1..Len(users) :
            users[i].id = session.user_id /\ users[i].is_admin

\* POST /admin/toggle_admin/<user_id> up to the call of the view: the wrapper
\* of admin_required reads the session's user and lets the request in or not
ToggleAdminRequest(session, key, user_id) ==
    /\ Cardinality(pending) < MaxInFlight
    /\ pending' = IF AdminRequired(session, key)
                  THEN pending \cup {[request |-> "toggle_admin", nr |-> DbSession,
                                      at |-> "view", session |-> session,
                                      user_id |-> user_id, is_admin |-> FALSE]}
                  ELSE pending
    /\ UNCHANGED <<now, users, designations, records, call, result>>

\* what the wrapper answers: a request let in is answered by the view
ToggleAdminRequestAnswer(session, key, user_id) ==
    IF AdminRequired(session, key) THEN response
    ELSE Redirect("auth.login", "Unauthorized access.")

\* the view toggle_admin changes the flag of the target: the target exists and
\* is not the session's user
Toggles(t) ==
    /\ \E i \in 1..Len(users) : users[i].id = t.user_id
    /\ ~(t.session.user_id # 0 /\ t.user_id = t.session.user_id)

\* the view toggle_admin of a request let in, up to its commit: the target is
\* read and the negation of its flag waits for the commit
ToggleAdmin(t) ==
    /\ t \in pending
    /\ t.request = "toggle_admin" /\ t.at = "view"
    /\ IF Toggles(t)
       THEN pending' = Continued(t,
                [t EXCEPT !.at = "commit",
                          !.is_admin =
                            ~(CHOOSE u \in {users[i] : i \in 1..Len(users)} :
                                u.id = t.user_id).is_admin])
       ELSE pending' = pending \ {t}
    /\ UNCHANGED <<now, users, designations, records, call, result>>

\* what the view answers before its commit
ToggleAdminAnswer(t) ==
    IF ~\E i \in 1..Len(users) : users[i].id = t.user_id
    THEN Redirect("admin.admin_dashboard", "User not found.")
    ELSE IF t.session.user_id # 0 /\ t.user_id = t.session.user_id
    THEN Redirect("admin.admin_dashboard", "You cannot change your own admin status.")
    ELSE response

\* db.session.commit() of toggle_admin: the flag the view computed is written
\* to the row of the target
ToggleAdminCommit(t) ==
    /\ t \in pending
    /\ t.request = "toggle_admin" /\ t.at = "commit"
    /\ users' = [i \in 1..Len(users) |->
                    IF users[i].id = t.user_id
                    THEN [users[i] EXCEPT !.is_admin = t.is_admin]
                    ELSE users[i]]
    /\ pending' = Continued(t, [t EXCEPT !.at = "status"])
    /\ UNCHANGED <<now, designations, records, call, result>>

\* the view after its commit: the commit has expired the target, so its flag
\* and its name are read again for the message
ToggleAdminStatus(t) ==
    /\ t \in pending
    /\ t.request = "toggle_admin" /\ t.at = "status"
    /\ pending' = pending \ {t}
    /\ UNCHANGED <<now, users, designations, records, call, result>>

\* what the view answers after its commit; the message names the target
ToggleAdminStatusAnswer(t) ==
    LET target_user == CHOOSE u \in {users[i] : i \in 1..Len(users)} : u.id = t.user_id
    IN  [kind |-> "redirect", to |-> "admin.admin_dashboard",
         flash |-> IF target_user.is_admin THEN "Admin access granted for {username}."
                   ELSE "Admin access revoked for {username}.",
         username |-> target_user.username]

\* the browsers of the admin runs: one without a login and one of each account
AdminSessions == {NoSession, Session(1, ""), Session(2, ""), Session(3, "")}

\* the ids asked for: the three accounts and one that does not exist
AdminTargets == 1..4

\* the accounts that are admins at the start: at least one
AdminsAtStart == {{1}, {1, 2}, {1, 2, 3}}

\* a row of the users table with the given is_admin
AdminAccount(id, username, is_admin) ==
    [Account(id, username, username, generate_password_hash(Text_secret),
             FALSE, NoDate, <<2023, 3, 10>>) EXCEPT !.is_admin = is_admin]

InitAdmin ==
    /\ now = AggToday
    /\ \E admins \in AdminsAtStart :
            users = <<AdminAccount(1, Text_ann, 1 \in admins),
                      AdminAccount(2, Text_bob, 2 \in admins),
                      AdminAccount(3, Text_cyd, 3 \in admins)>>
    /\ designations = <<>>
    /\ records = <<>>
    /\ pending = {}
    /\ call = NoCall
    /\ result = None
    /\ cookie = NoSession
    /\ response = NoResponse
    /\ clock = 0
    /\ issued = {}

NextAdmin ==
    \/ \E session \in AdminSessions, user_id \in AdminTargets :
            ToggleAdminRequest(session, "", user_id)
                /\ Answered(ToggleAdminRequestAnswer(session, "", user_id))
    \/ \E t \in pending : ToggleAdmin(t) /\ Answered(ToggleAdminAnswer(t))
    \/ \E t \in pending : ToggleAdminCommit(t) /\ Quiet
    \/ \E t \in pending : ToggleAdminStatus(t) /\ Answered(ToggleAdminStatusAnswer(t))

SpecAdmin == InitAdmin /\ [][NextAdmin]_vars

----------------------------------------------------------------------------
(* The calculators of app.py, each written out in full as app.py has them,  *)
(* and runs that call them next to the ones of designation_helpers.py       *)

\* min(100, max(0, (earned / required * 100) if required > 0 else 0))
app_Percentage(earned, required) ==
    LET percentage == IF required > 0 THEN Frac(earned * 100, required) ELSE Frac(0, 1)
    IN  FracMin(Frac(100, 1), FracMax(Frac(0, 1), percentage))

app_calculate_cfp_requirements(user, user_designation) ==
    IF \/ user_designation = NoDesignation
       \/ user_designation.designation # "CFP"
       \/ user_designation.birth_month = 0
    THEN None
    ELSE
        LET birth_month == user_designation.birth_month
            current_date == now
            current_year == current_date[1]
            period_start ==
                IF current_date[2] < birth_month
                THEN <<current_year - 2, birth_month, 1>>
                ELSE <<current_year - 1, birth_month, 1>>
            period_end ==
                IF current_date[2] < birth_month
                THEN PrevDay(<<current_year, birth_month, 1>>)
                ELSE PrevDay(<<current_year + 1, birth_month, 1>>)
            ce_records == QueryRecords(user.id, period_start, period_end)
            total_hours == SumHours(ce_records)
            ethics_hours == SumHours(SelectSeq(ce_records, IsEthicsText))
            ethics_required == 2
            total_required == 30
        IN [designation |-> "CFP",
            total_required |-> total_required,
            total_earned |-> total_hours,
            total_remaining |-> Max(0, total_required - total_hours),
            total_percentage |-> app_Percentage(total_hours, total_required),
            ethics_required |-> ethics_required,
            ethics_earned |-> Min(ethics_hours, ethics_required),
            ethics_remaining |-> Max(0, ethics_required - ethics_hours),
            ethics_percentage |-> app_Percentage(ethics_hours, ethics_required),
            period_start |-> period_start,
            period_end |-> period_end,
            is_complete |-> /\ total_hours >= total_required
                            /\ ethics_hours >= ethics_required]

app_calculate_cpa_requirements(user, user_designation) ==
    IF user_designation = NoDesignation \/ user_designation.designation # "CPA"
    THEN None
    ELSE
        LET hours_per_year == 40
            current_date == now
            current_year == current_date[1]
            period_start == <<current_year, 1, 1>>
            period_end == <<current_year, 12, 31>>
            ce_records == QueryRecords(user.id, period_start, period_end)
            total_hours == SumHours(ce_records)
        IN [designation |-> "CPA",
            state |-> user_designation.state,
            total_required |-> hours_per_year,
            total_earned |-> total_hours,
            total_remaining |-> Max(0, hours_per_year - total_hours),
            total_percentage |-> app_Percentage(total_hours, hours_per_year),
            period_start |-> period_start,
            period_end |-> period_end,
            is_complete |-> total_hours >= hours_per_year]

app_calculate_ea_requirements(user, user_designation) ==
    IF user_designation = NoDesignation \/ user_designation.designation # "EA"
    THEN None
    ELSE
        LET current_date == now
            current_year == current_date[1]
            cycle_start_year == (current_year \div 3) * 3
            period_start == <<cycle_start_year, 1, 1>>
            period_end == <<cycle_start_year + 2, 12, 31>>
            ce_records == QueryRecords(user.id, period_start, period_end)
            current_year_start == <<current_year, 1, 1>>
            current_year_end == <<current_year, 12, 31>>
            current_year_records ==
                SelectSeq(ce_records, LAMBDA r :
                    /\ DateLE(current_year_start, r.date_completed)
                    /\ DateLE(r.date_completed, current_year_end))
            total_hours == SumHours(ce_records)
            current_year_hours == SumHours(current_year_records)
            ethics_hours == SumHours(SelectSeq(ce_records, IsEthicsText))
            total_required == 72
            yearly_minimum == 16
            ethics_required == 2
        IN [designation |-> "EA",
            total_required |-> total_required,
            total_earned |-> total_hours,
            total_remaining |-> Max(0, total_required - total_hours),
            total_percentage |-> app_Percentage(total_hours, total_required),
            yearly_minimum |-> yearly_minimum,
            current_year_hours |-> current_year_hours,
            yearly_percentage |-> app_Percentage(current_year_hours, yearly_minimum),
            ethics_required |-> ethics_required,
            ethics_earned |-> Min(ethics_hours, ethics_required),
            ethics_remaining |-> Max(0, ethics_required - ethics_hours),
            ethics_percentage |-> app_Percentage(ethics_hours, ethics_required),
            period_start |-> period_start,
            period_end |-> period_end,
            is_complete |-> /\ total_hours >= total_required
                            /\ current_year_hours >= yearly_minimum
                            /\ ethics_hours >= ethics_required]

\* app_calculate_eca_requirements without "if period_end > current_date"
app_calculate_eca_requirements_EndNotCut(user, user_designation) ==
    IF user_designation = NoDesignation \/ user_designation.designation # "ECA"
    THEN None
    ELSE
        LET current_date == now
            designation_date ==
                IF user_designation.created_at # NoDate
                THEN user_designation.created_at ELSE current_date
            period_number ==
                ((ToOrdinal(current_date) - ToOrdinal(designation_date)) * 100)
                    \div 73050
            start_year == designation_date[1] + period_number * 2
            end_year == designation_date[1] + (period_number + 1) * 2
        IN  IF \/ ~ValidDate(start_year, designation_date[2], designation_date[3])
               \/ ~ValidDate(end_year, designation_date[2], designation_date[3])
            THEN Raised
            ELSE
                LET period_start == <<start_year, designation_date[2], designation_date[3]>>
                    period_end ==
                        PrevDay(<<end_year, designation_date[2], designation_date[3]>>)
                    ce_records == QueryRecords(user.id, period_start, period_end)
                    total_hours == SumHours(ce_records)
                    total_required == 30
                IN [designation |-> "ECA",
                    total_required |-> total_required,
                    total_earned |-> total_hours,
                    total_remaining |-> Max(0, total_required - total_hours),
                    total_percentage |-> app_Percentage(total_hours, total_required),
                    period_start |-> period_start,
                    period_end |-> period_end,
                    is_complete |-> total_hours >= total_required,
                    admin_fee |-> 250,
                    volunteer_hours_required |-> 15]

app_calculate_eca_requirements(user, user_designation) ==
    IF user_designation = NoDesignation \/ user_designation.designation # "ECA"
    THEN None
    ELSE
        LET current_date == now
            designation_date ==
                IF user_designation.created_at # NoDate
                THEN user_designation.created_at ELSE current_date
            period_number ==
                ((ToOrdinal(current_date) - ToOrdinal(designation_date)) * 100)
                    \div 73050
            start_year == designation_date[1] + period_number * 2
            end_year == designation_date[1] + (period_number + 1) * 2
        IN  IF \/ ~ValidDate(start_year, designation_date[2], designation_date[3])
               \/ ~ValidDate(end_year, designation_date[2], designation_date[3])
            THEN Raised
            ELSE
                LET period_start == <<start_year, designation_date[2], designation_date[3]>>
                    computed_end ==
                        PrevDay(<<end_year, designation_date[2], designation_date[3]>>)
                    period_end ==
                        IF ~DateLE(computed_end, current_date)
                        THEN current_date ELSE computed_end
                    ce_records == QueryRecords(user.id, period_start, period_end)
                    total_hours == SumHours(ce_records)
                    total_required == 30
                IN [designation |-> "ECA",
                    total_required |-> total_required,
                    total_earned |-> total_hours,
                    total_remaining |-> Max(0, total_required - total_hours),
                    total_percentage |-> app_Percentage(total_hours, total_required),
                    period_start |-> period_start,
                    period_end |-> period_end,
                    is_complete |-> total_hours >= total_required,
                    admin_fee |-> 250,
                    volunteer_hours_required |-> 15]

app_calculate_cep_requirements(user, user_designation) ==
    IF user_designation = NoDesignation \/ user_designation.designation # "CEP"
    THEN None
    ELSE
        LET current_date == now
            designation_date ==
                IF user_designation.created_at # NoDate
                THEN user_designation.created_at ELSE current_date
            period_number ==
                ((ToOrdinal(current_date) - ToOrdinal(designation_date)) * 100)
                    \div 73050
            start_year == designation_date[1] + period_number * 2
            end_year == designation_date[1] + (period_number + 1) * 2
        IN  IF \/ ~ValidDate(start_year, designation_date[2], designation_date[3])
               \/ ~ValidDate(end_year, designation_date[2], designation_date[3])
            THEN Raised
            ELSE
                LET period_start == <<start_year, designation_date[2], designation_date[3]>>
                    computed_end ==
                        PrevDay(<<end_year, designation_date[2], designation_date[3]>>)
                    period_end ==
                        IF ~DateLE(computed_end, current_date)
                        THEN current_date ELSE computed_end
                    ce_records == QueryRecords(user.id, period_start, period_end)
                    total_hours == SumHours(ce_records)
                    total_required == 30
                IN [designation |-> "CEP",
                    total_required |-> total_required,
                    total_earned |-> total_hours,
                    total_remaining |-> Max(0, total_required - total_hours),
                    total_percentage |-> app_Percentage(total_hours, total_required),
                    period_start |-> period_start,
                    period_end |-> period_end,
                    is_complete |-> total_hours >= total_required,
                    admin_fee |-> 250,
                    volunteer_hours_required |-> 15]

app_calculate_napfa_requirements(user) ==
    IF ~user.is_napfa_member \/ user.napfa_join_date = NoDate
    THEN None
    ELSE
        LET current_year == now[1]
            cycle_start_year ==
                IF current_year % 2 = 0 THEN current_year ELSE current_year - 1
            cycle_end_year == cycle_start_year + 1
            cycle_start == <<cycle_start_year, 1, 1>>
            cycle_end == <<cycle_end_year, 12, 31>>
            join_date == user.napfa_join_date
            total_required ==
                IF DateLE(join_date, <<cycle_start_year, 6, 30>>) THEN 60
                ELSE IF DateLE(join_date, <<cycle_start_year, 12, 31>>) THEN 45
                ELSE IF DateLE(join_date, <<cycle_end_year, 6, 30>>) THEN 30
                ELSE 15
            napfa_approved_required ==
                IF DateLE(join_date, <<cycle_start_year, 6, 30>>) THEN 30
                ELSE IF DateLE(join_date, <<cycle_start_year, 12, 31>>) THEN 30
                ELSE IF DateLE(join_date, <<cycle_end_year, 6, 30>>) THEN 30
                ELSE 15
            ce_records == QueryRecords(user.id, cycle_start, cycle_end)
            total_hours == SumHours(ce_records)
            napfa_approved_hours ==
                SumHours(SelectSeq(ce_records, LAMBDA r : r.is_napfa_approved))
            ethics_completed ==
                \E i \in 1..Len(ce_records) : ce_records[i].is_ethics_course
        IN [total_required |-> total_required,
            total_earned |-> total_hours,
            total_remaining |-> Max(0, total_required - total_hours),
            total_percentage |-> app_Percentage(total_hours, total_required),
            napfa_approved_required |-> napfa_approved_required,
            napfa_approved_earned |-> napfa_approved_hours,
            napfa_approved_remaining |->
                Max(0, napfa_approved_required - napfa_approved_hours),
            napfa_approved_percentage |->
                app_Percentage(napfa_approved_hours, napfa_approved_required),
            ethics_required |-> TRUE,
            ethics_completed |-> ethics_completed,
            cycle_start |-> cycle_start,
            cycle_end |-> cycle_end,
            is_complete |-> /\ total_hours >= total_required
                            /\ napfa_approved_hours >= napfa_approved_required
                            /\ ethics_completed]

\* the calculators app.py defines for an assignment, under the names the
\* calls of the runs are recorded with
AppCalculatorNames ==
    {"app.calculate_cfp_requirements", "app.calculate_cpa_requirements",
     "app.calculate_ea_requirements", "app.calculate_cep_requirements",
     "app.calculate_eca_requirements"}

\* the calculator of app.py with the given name, applied
AppApplyCalculator(calc, user, ud) ==
    CASE calc = "app.calculate_cfp_requirements" -> app_calculate_cfp_requirements(user, ud)
      [] calc = "app.calculate_cpa_requirements" -> app_calculate_cpa_requirements(user, ud)
      [] calc = "app.calculate_ea_requirements" -> app_calculate_ea_requirements(user, ud)
      [] calc = "app.calculate_cep_requirements" -> app_calculate_cep_requirements(user, ud)
      [] calc = "app.calculate_eca_requirements" -> app_calculate_eca_requirements(user, ud)

\* a calculator of app.py called with a user and an assignment (or None)
CallApp(calc, user, ud) ==
    /\ result' = AppApplyCalculator(calc, user, ud)
    /\ call' = Invocation(calc, user, ud, <<>>, NoSession, <<>>,
                          IF IsResult(AppApplyCalculator(calc, user, ud))
                          THEN 1 ELSE 0)
    /\ UNCHANGED <<now, users, designations, records, pending>>

\* calculate_napfa_requirements of app.py called with a user
CallAppNapfa(user) ==
    /\ result' = app_calculate_napfa_requirements(user)
    /\ call' = Invocation("app.calculate_napfa_requirements", user, NoDesignation,
                          <<>>, NoSession, <<>>,
                          IF IsResult(app_calculate_napfa_requirements(user))
                          THEN 1 ELSE 0)
    /\ UNCHANGED <<now, users, designations, records, pending>>

\* the codes both files have a calculator for
AppCodes == {"CFP", "CPA", "EA", "CEP", "ECA"}

\* the assignments of the runs: every birth month, the anchor dates of the
\* clock runs, and an assignment without a created_at
AppAssignments ==
    UNION { AssignmentsOf(code, 1..12,
                IF code \in {"CEP", "ECA"} THEN AnchorDates \cup {NoDate}
                ELSE {<<2023, 3, 10>>}) : code \in AppCodes }

\* the days of the runs: the first, the tenth and the last day of every month
\* of the years of the clock runs
AppDays ==
    { day \in (FirstDay[1]..LastDay[1]) \X (1..12) \X {1, 10, 28, 29, 30, 31} :
        day[3] \in {1, 10, DaysInMonth(day[1], day[2])} }

\* the record sets of the runs: the records of the clock runs, and none
AppRecordSets == {ClockRecords, <<>>}

InitApp ==
    /\ now \in AppDays
    /\ \/ /\ users = <<UserRow(1, FALSE, NoDate), UserRow(2, FALSE, NoDate)>>
          /\ \E ud \in AppAssignments : designations = <<ud>>
       \/ /\ \E join \in JoinDates :
                users = <<UserRow(1, TRUE, join), UserRow(2, FALSE, NoDate)>>
          /\ designations = <<>>
    /\ records \in AppRecordSets
    /\ pending = {}
    /\ call = NoCall
    /\ result = None
    /\ cookie = NoSession
    /\ response = NoResponse
    /\ clock = 0
    /\ issued = {}

NextApp ==
    \/ \E i \in 1..Len(designations) : CallCalculator(designations[i]) /\ Quiet
    \/ \E i \in 1..Len(designations), calc \in AppCalculatorNames :
            CallApp(calc, users[1], designations[i]) /\ Quiet
    \/ \E i \in 1..Len(users) : CallNapfa(users[i]) /\ Quiet
    \/ \E i \in 1..Len(users) : CallAppNapfa(users[i]) /\ Quiet

SpecApp == InitApp /\ [][NextApp]_vars

----------------------------------------------------------------------------
(* Vocabulary of the properties *)

DesignationCalculatorNames ==
    {DESIGNATION_CALCULATORS[c] : c \in DOMAIN DESIGNATION_CALCULATORS}

\* a calculator has just returned a result
Returned ==
    /\ <<call, result>>' # <<call, result>>
    /\ call'.fn # ""
    /\ IsResult(result')

\* the stored records of user uid completed within [a, b], as row numbers
OwnInWindow(uid, a, b) ==
    {i \in 1..Len(records) :
        /\ records[i].user_id = uid
        /\ ToOrdinal(a) <= ToOrdinal(records[i].date_completed)
        /\ ToOrdinal(records[i].date_completed) <= ToOrdinal(b)}

RECURSIVE HoursOf(_)
HoursOf(rows) ==
    IF rows = {} THEN 0
    ELSE LET i == CHOOSE x \in rows : TRUE
         IN records[i].hours + HoursOf(rows \ {i})

InPercentRange(p) == p[2] > 0 /\ 0 <= p[1] /\ p[1] <= 100 * p[2]

----------------------------------------------------------------------------
(* C1 *)

\* C1: in every result of a designation calculator, total_earned is the sum
\* of hours over exactly the records of the given user whose date_completed
\* lies in [period_start, period_end] of the same result, both bounds
\* inclusive; other users' records and records outside the window add nothing.
C1_TotalEarnedIsWindowSum ==
    (call.fn \in DesignationCalculatorNames /\ IsResult(result)) =>
        result.total_earned =
            HoursOf(OwnInWindow(call.user, result.period_start, result.period_end))

\* a result whose window starts on the date of one of the user's records,
\* holds a record of another user, and leaves one of the user's records out
C1_Witness ==
    /\ call.fn \in DesignationCalculatorNames
    /\ IsResult(result)
    /\ \E i, j, k \in 1..Len(records) :
        /\ records[i].user_id = call.user
        /\ records[i].date_completed = result.period_start
        /\ records[j].user_id # call.user
        /\ DateLE(result.period_start, records[j].date_completed)
        /\ DateLE(records[j].date_completed, result.period_end)
        /\ records[k].user_id = call.user
        /\ ~DateLE(records[k].date_completed, result.period_end)
    /\ result.total_earned > 0

----------------------------------------------------------------------------
(* C2 *)

EthicsRows(rows) == {i \in rows : IsEthicsText(records[i])}

\* what the claim requires of is_complete in result r of call c
CompleteAsClaimed(c, r) ==
    LET total_met == r.total_earned >= r.total_required IN
    IF c.fn = "calculate_napfa_requirements" THEN
        LET rows == OwnInWindow(c.user, r.cycle_start, r.cycle_end) IN
        r.is_complete <=>
            /\ total_met
            /\ HoursOf({i \in rows : records[i].is_napfa_approved})
                    >= r.napfa_approved_required
            /\ \E i \in rows : records[i].is_ethics_course
    ELSE
        LET rows == OwnInWindow(c.user, r.period_start, r.period_end)
            ethics == HoursOf(EthicsRows(rows))
            this_year == HoursOf({i \in rows : records[i].date_completed[1] = c.at[1]})
        IN
        CASE c.fn = "calculate_cfp_requirements" ->
                r.is_complete <=> (total_met /\ ethics >= 2)
          [] c.fn = "calculate_ea_requirements" ->
                /\ r.is_complete <=> (total_met /\ this_year >= 16 /\ ethics >= 2)
                /\ (this_year >= 16 /\ (r.total_earned < 72 \/ ethics < 2)) =>
                        (r.yearly_percentage = <<100, 1>> /\ ~r.is_complete)
          [] c.fn = "calculate_iar_requirements" ->
                r.is_complete <=> (total_met /\ ethics >= 6)
          [] OTHER ->
                r.is_complete <=> total_met

\* C2: in every result returned by a designation calculator or by
\* calculate_napfa_requirements, is_complete is true if and only if the total
\* hours reach total_required and every sub-requirement is met (CFP: ethics
\* hours >= 2; EA: current-year hours >= 16 and ethics hours >= 2; IAR: ethics
\* hours >= 6; NAPFA: approved hours >= napfa_approved_required and an in-cycle
\* record with is_ethics_course); an EA user with 16 hours this year but a
\* total below 72 or ethics below 2 has yearly_percentage 100 and is not complete.
C2_CompleteIffAllMet ==
    [][Returned => CompleteAsClaimed(call', result')]_vars

\* an EA result with the yearly minimum met and the requirement not complete
C2_Witness ==
    /\ call.fn = "calculate_ea_requirements"
    /\ IsResult(result)
    /\ result.current_year_hours >= 16
    /\ result.yearly_percentage = <<100, 1>>
    /\ result.total_earned < 72
    /\ ~result.is_complete

----------------------------------------------------------------------------
(* C3 *)

PercentageFields ==
    {"total_percentage", "ethics_percentage", "yearly_percentage",
     "napfa_approved_percentage"}

\* C3: in every result of every calculator, whatever the records (earned far
\* above required, no records, zero or negative hours), each percentage field
\* present lies in the closed range [0, 100].
C3_PercentagesInRange ==
    IsResult(result) =>
        \A f \in PercentageFields \cap DOMAIN result : InPercentRange(result[f])

\* a result whose earned total is more than twice the required one
C3_Witness ==
    /\ IsResult(result)
    /\ result.total_earned > 2 * result.total_required
    /\ result.total_percentage = <<100, 1>>

----------------------------------------------------------------------------
(* C4 *)

RemainingAsClaimed(required, earned, remaining) ==
    /\ remaining >= 0
    /\ remaining = (IF required - earned > 0 THEN required - earned ELSE 0)

\* C4: in every result, each reported (required, earned, remaining) triple
\* (the total block, the ethics block of CFP, EA and IAR, the NAPFA-approved
\* block) has remaining = max(0, required - earned) for the earned value of
\* the same result, and remaining is never negative.
C4_RemainingIsShortfall ==
    IsResult(result) =>
        /\ RemainingAsClaimed(result.total_required, result.total_earned,
                              result.total_remaining)
        /\ "ethics_remaining" \in DOMAIN result =>
                RemainingAsClaimed(result.ethics_required, result.ethics_earned,
                                   result.ethics_remaining)
        /\ "napfa_approved_remaining" \in DOMAIN result =>
                RemainingAsClaimed(result.napfa_approved_required,
                                   result.napfa_approved_earned,
                                   result.napfa_approved_remaining)

\* a result whose total is above the required one while ethics hours are missing
C4_Witness ==
    /\ IsResult(result)
    /\ "ethics_remaining" \in DOMAIN result
    /\ result.total_earned > result.total_required
    /\ result.total_remaining = 0
    /\ result.ethics_remaining > 0

----------------------------------------------------------------------------
(* C5 *)

\* the last two returns are of the same calculator for the same arguments,
\* made on the same day or on consecutive days
ConsecutiveCalls ==
    /\ call.fn = call'.fn
    /\ call.user = call'.user
    /\ call.ud = call'.ud
    /\ call'.at \in {call.at, NextDay(call.at)}
    /\ IsResult(result)
    /\ IsResult(result')

\* C5: for a fixed CFP birth month, as the clock advances day by day, the
\* windows calculate_cfp_requirements returns tile time: whenever the returned
\* window changes, the new period_start is the day after the previous
\* period_end, so that no day belongs to two different returned windows.
C5_CfpWindowsTile ==
    [][ ( /\ call'.fn = "calculate_cfp_requirements"
          /\ ConsecutiveCalls
          /\ <<result'.period_start, result'.period_end>>
                # <<result.period_start, result.period_end>> )
        => result'.period_start = NextDay(result.period_end) ]_vars

----------------------------------------------------------------------------
(* C6 *)

\* C6: for every birth month and every current date (year Y, month M), the CFP
\* period is [Y-2 birth month 1, the day before Y birth month 1] if M is before
\* the birth month, and [Y-1 birth month 1, the day before Y+1 birth month 1]
\* otherwise; the current date lies inside the window, and the window is 24
\* calendar months long. Birth month 6: 2025-05-01 gives [2023-06-01,
\* 2025-05-31], 2025-07-01 gives [2024-06-01, 2026-05-31].
C6_CfpPeriod ==
    (call.fn = "calculate_cfp_requirements" /\ IsResult(result)) =>
        LET bm == call.ud.birth_month
            Y == call.at[1]
            M == call.at[2]
            ps == result.period_start
            pe == result.period_end
        IN /\ M < bm => (ps = <<Y - 2, bm, 1>> /\ NextDay(pe) = <<Y, bm, 1>>)
           /\ M >= bm => (ps = <<Y - 1, bm, 1>> /\ NextDay(pe) = <<Y + 1, bm, 1>>)
           /\ ToOrdinal(ps) <= ToOrdinal(call.at)
           /\ ToOrdinal(call.at) <= ToOrdinal(pe)
           /\ NextDay(pe) = <<ps[1] + 2, ps[2], ps[3]>>
           /\ (bm = 6 /\ call.at = <<2025, 5, 1>>) =>
                    (ps = <<2023, 6, 1>> /\ pe = <<2025, 5, 31>>)
           /\ (bm = 6 /\ call.at = <<2025, 7, 1>>) =>
                    (ps = <<2024, 6, 1>> /\ pe = <<2026, 5, 31>>)

\* the CFP result of the first day of the birth month
C6_Witness ==
    /\ call.fn = "calculate_cfp_requirements"
    /\ IsResult(result)
    /\ call.ud.birth_month = 6
    /\ call.at = <<2025, 6, 1>>
    /\ result.period_start = <<2024, 6, 1>>
    /\ result.period_end = <<2026, 5, 31>>

----------------------------------------------------------------------------
(* C7 *)

CepiCalculatorNames == {"calculate_cep_requirements", "calculate_eca_requirements"}

\* the anchor date of the CEP or ECA call c
AnchorOf(c) == IF c.ud.created_at # NoDate THEN c.ud.created_at ELSE c.at

\* floor(days / 365.25 / 2) = floor(2 * days / 1461)
PeriodIndex(A, N) == (2 * (ToOrdinal(N) - ToOrdinal(A))) \div 1461

\* what the claim says of the period in result r for anchor A and current date N
CepiPeriodAsClaimed(A, N, r) ==
    LET n == PeriodIndex(A, N)
        theoretical_end == ToOrdinal(<<A[1] + 2 * (n + 1), A[2], A[3]>>) - 1
    IN /\ IsResult(r)
       /\ r.period_start = <<A[1] + 2 * n, A[2], A[3]>>
       /\ ToOrdinal(r.period_end) =
                (IF theoretical_end < ToOrdinal(N) THEN theoretical_end ELSE ToOrdinal(N))
       /\ ToOrdinal(r.period_end) <= ToOrdinal(N)
       /\ ToOrdinal(r.period_start) <= ToOrdinal(r.period_end)
       /\ (A = <<2023, 3, 10>> /\ N = <<2025, 6, 1>>) =>
                (n = 1 /\ r.period_start = <<2025, 3, 10>> /\ r.period_end = <<2025, 6, 1>>)

\* C7: for CEP and ECA with anchor date A and current date N >= A, with
\* n = floor((N - A in days) / 365.25 / 2), period_start is A shifted forward
\* 2n years (same month and day) and period_end is the earlier of A shifted
\* 2(n+1) years minus one day and N; so period_end never exceeds N and
\* period_start <= period_end. A = 2023-03-10, N = 2025-06-01 gives n = 1 and
\* the period [2025-03-10, 2025-06-01].
C7_CepiPeriod ==
    (call.fn \in CepiCalculatorNames /\ DateLE(AnchorOf(call), call.at)) =>
        CepiPeriodAsClaimed(AnchorOf(call), call.at, result)

\* the same, for the anchors that are not a February 29
C7_CepiPeriodOffLeapDay ==
    ( /\ call.fn \in CepiCalculatorNames
      /\ DateLE(AnchorOf(call), call.at)
      /\ <<AnchorOf(call)[2], AnchorOf(call)[3]>> # <<2, 29>> ) =>
        CepiPeriodAsClaimed(AnchorOf(call), call.at, result)

----------------------------------------------------------------------------
(* C8 *)

\* C8: the CEP and ECA calculators return a result without raising for every
\* valid anchor date and every current date, an anchor of February 29
\* included; no calculator raises on a stored assignment, its only failure
\* outcome being a null result.
C8_NoCalculatorRaises ==
    call.fn # "" => ~HasRaised(result)

----------------------------------------------------------------------------
(* C9 *)

\* the stored user of call c
UserOf(c) == CHOOSE u \in {users[i] : i \in 1..Len(users)} : u.id = c.user

\* C9: for a NAPFA member with join date J and the current cycle
\* [Jan 1 S, Dec 31 S+1]: J up to June 30 of S gives 60 total / 30 approved;
\* July 1 to Dec 31 of S gives 45 / 30; Jan 1 to June 30 of S+1 gives 30 / 30;
\* J after June 30 of S+1 gives 15 / 15. A J before the cycle gives 60 / 30,
\* and J = 2024-04-01 with the current date in 2024 gives 60 / 30.
C9_NapfaTiers ==
    (call.fn = "calculate_napfa_requirements" /\ IsResult(result)) =>
        LET J == ToOrdinal(UserOf(call).napfa_join_date)
            S == result.cycle_start[1]
            required == <<result.total_required, result.napfa_approved_required>>
        IN /\ J <= ToOrdinal(<<S, 6, 30>>) => required = <<60, 30>>
           /\ (ToOrdinal(<<S, 7, 1>>) <= J /\ J <= ToOrdinal(<<S, 12, 31>>)) =>
                    required = <<45, 30>>
           /\ (ToOrdinal(<<S + 1, 1, 1>>) <= J /\ J <= ToOrdinal(<<S + 1, 6, 30>>)) =>
                    required = <<30, 30>>
           /\ J > ToOrdinal(<<S + 1, 6, 30>>) => required = <<15, 15>>
           /\ J < ToOrdinal(result.cycle_start) => required = <<60, 30>>
           /\ (UserOf(call).napfa_join_date = <<2024, 4, 1>> /\ call.at[1] = 2024) =>
                    required = <<60, 30>>
           /\ required \in {<<60, 30>>, <<45, 30>>, <<30, 30>>, <<15, 15>>}

\* a member who joined on June 30 of the first year of the cycle
C9_Witness ==
    /\ call.fn = "calculate_napfa_requirements"
    /\ IsResult(result)
    /\ UserOf(call).napfa_join_date = <<result.cycle_start[1], 6, 30>>
    /\ result.total_required = 60
    /\ result.napfa_approved_required = 30

----------------------------------------------------------------------------
(* C10 *)

NapfaCycleAsClaimed ==
    (call.fn = "calculate_napfa_requirements" /\ IsResult(result)) =>
        LET Y == call.at[1]
            S == IF Y % 2 = 0 THEN Y ELSE Y - 1
        IN /\ result.cycle_start = <<S, 1, 1>>
           /\ result.cycle_end = <<S + 1, 12, 31>>
           /\ result.cycle_start[1] % 2 = 0
           /\ ToOrdinal(result.cycle_start) <= ToOrdinal(call.at)
           /\ ToOrdinal(call.at) <= ToOrdinal(result.cycle_end)

NapfaCyclesContiguous ==
    ( /\ call'.fn = "calculate_napfa_requirements"
      /\ ConsecutiveCalls
      /\ result'.cycle_start # result.cycle_start )
    => ToOrdinal(result'.cycle_start) = ToOrdinal(result.cycle_end) + 1

\* C10: for every current year Y, calculate_napfa_requirements reports
\* cycle_start = Jan 1 of Y if Y is even, else Jan 1 of Y-1, and cycle_end =
\* Dec 31 of the following year; the cycle start year is even, the current
\* date lies in [cycle_start, cycle_end], and successive cycles are contiguous
\* and do not overlap as the year advances.
C10_NapfaCycle ==
    [](NapfaCycleAsClaimed) /\ [][NapfaCyclesContiguous]_vars

\* the first result of a new cycle, returned on its first day
C10_Witness ==
    /\ call.fn = "calculate_napfa_requirements"
    /\ IsResult(result)
    /\ call.at = <<2026, 1, 1>>
    /\ result.cycle_start = <<2026, 1, 1>>
    /\ result.cycle_end = <<2027, 12, 31>>

----------------------------------------------------------------------------
(* C11 *)

OddCycleCalculatorNames ==
    {"calculate_clu_requirements", "calculate_chfc_requirements",
     "calculate_cima_requirements", "calculate_cimc_requirements",
     "calculate_cpwa_requirements", "calculate_crps_requirements",
     "calculate_ricp_requirements"}

OddCycleAsClaimed ==
    (call.fn \in OddCycleCalculatorNames /\ IsResult(result)) =>
        LET Y == call.at[1]
            C == IF Y % 2 = 1 THEN Y ELSE Y - 1
            napfa_start == IF Y % 2 = 0 THEN Y ELSE Y - 1
        IN /\ result.period_start = <<C, 1, 1>>
           /\ result.period_end = <<C + 1, 12, 31>>
           /\ ToOrdinal(result.period_start) <= ToOrdinal(call.at)
           /\ ToOrdinal(call.at) <= ToOrdinal(result.period_end)
           /\ result.period_start[1] % 2 = 1
           /\ result.period_start[1] - napfa_start \in {0 - 1, 1}

OddCyclesContiguous ==
    ( /\ call'.fn \in OddCycleCalculatorNames
      /\ ConsecutiveCalls
      /\ result'.period_start # result.period_start )
    => ToOrdinal(result'.period_start) = ToOrdinal(result.period_end) + 1

\* C11: for CLU, ChFC, CIMA, CIMC, CPWA, CRPS and RICP and every current year
\* Y, the period is [Jan 1 C, Dec 31 C+1] with C = Y if Y is odd, else Y-1 (so
\* the seven return the same window for the same date); the window contains
\* the current date, its start year is odd, one year off the NAPFA cycle's,
\* and successive windows are contiguous and do not overlap.
C11_OddYearCycle ==
    [](OddCycleAsClaimed) /\ [][OddCyclesContiguous]_vars

\* the first result of a new odd-year cycle, returned on its first day
C11_Witness ==
    /\ call.fn \in OddCycleCalculatorNames
    /\ IsResult(result)
    /\ call.at = <<2027, 1, 1>>
    /\ result.period_start = <<2027, 1, 1>>
    /\ result.period_end = <<2028, 12, 31>>

----------------------------------------------------------------------------
(* C12 *)

\* C12: for EA and every current year Y, the period is [Jan 1 of 3*floor(Y/3),
\* Dec 31 of 3*floor(Y/3)+2] and contains the current date; current_year_hours
\* is the sum of hours of the user's records dated within [Jan 1 Y, Dec 31 Y]
\* only, while total_earned and the ethics hours are summed over the whole
\* 3-year period; so current_year_hours <= total_earned.
C12_EaPeriodAndYear ==
    (call.fn = "calculate_ea_requirements" /\ IsResult(result)) =>
        LET Y == call.at[1]
            S == 3 * (Y \div 3)
            rows == OwnInWindow(call.user, <<S, 1, 1>>, <<S + 2, 12, 31>>)
            year_rows == OwnInWindow(call.user, <<Y, 1, 1>>, <<Y, 12, 31>>)
            ethics == HoursOf(EthicsRows(rows))
        IN /\ result.period_start = <<S, 1, 1>>
           /\ result.period_end = <<S + 2, 12, 31>>
           /\ ToOrdinal(result.period_start) <= ToOrdinal(call.at)
           /\ ToOrdinal(call.at) <= ToOrdinal(result.period_end)
           /\ result.current_year_hours = HoursOf(year_rows)
           /\ result.total_earned = HoursOf(rows)
           /\ result.ethics_remaining = (IF ethics < 2 THEN 2 - ethics ELSE 0)
           /\ result.ethics_percentage = (IF ethics < 2 THEN <<50 * ethics, 1>> ELSE <<100, 1>>)
           /\ result.current_year_hours <= result.total_earned

\* an EA result in the second year of a cycle: the hours of the first year
\* count for the total and for ethics, not for the current year
C12_Witness ==
    /\ call.fn = "calculate_ea_requirements"
    /\ IsResult(result)
    /\ call.at[1] = 2026
    /\ result.period_start = <<2025, 1, 1>>
    /\ result.current_year_hours > 0
    /\ result.current_year_hours < result.total_earned
    /\ result.ethics_remaining = 0
    /\ \A i \in 1..Len(records) :
            IsEthicsText(records[i]) => records[i].date_completed[1] # 2026

----------------------------------------------------------------------------
(* C13 *)

\* the designation code a calculator is registered for
CodeOf(fn) ==
    CHOOSE c \in DOMAIN DESIGNATION_CALCULATORS : DESIGNATION_CALCULATORS[c] = fn

\* the cases in which the claim has call c return null
NullCase(c) ==
    IF c.fn = "calculate_napfa_requirements"
    THEN ~c.who.is_napfa_member \/ c.who.napfa_join_date = NoDate
    ELSE \/ c.ud = NoDesignation
         \/ c.ud.designation # CodeOf(c.fn)
         \/ CodeOf(c.fn) = "CFP" /\ c.ud.birth_month = 0

NullAsClaimed(c, r) ==
    IF NullCase(c)
    THEN r = None /\ c.reads = 0
    ELSE /\ IsResult(r)
         /\ c.fn # "calculate_napfa_requirements" => r.designation = c.ud.designation

\* C13: a calculator returns null (no result, no exception, no query to the
\* store) in exactly these cases: the assignment is missing or its code is not
\* the calculator's own; the CFP assignment has no birth_month; for NAPFA, the
\* user is not a member or has no join date. In every other case it returns a
\* result, whose 'designation' is the assignment's code.
C13_NullExactly ==
    call.fn \in DesignationCalculatorNames \cup {"calculate_napfa_requirements"} =>
        NullAsClaimed(call, result)

\* the same, for the assignments that were not created on a February 29
C13_NullExactlyOffLeapDay ==
    ( /\ call.fn \in DesignationCalculatorNames \cup {"calculate_napfa_requirements"}
      /\ <<call.ud.created_at[2], call.ud.created_at[3]>> # <<2, 29>> ) =>
        NullAsClaimed(call, result)

----------------------------------------------------------------------------
(* C14 *)

\* the assignments of the list that the claim has contribute an entry: the
\* code has a registered calculator and the anchor data is there
Contributing(uds) ==
    SelectSeq(uds, LAMBDA ud :
        /\ ud.designation \in DOMAIN DESIGNATION_CALCULATORS
        /\ ud.designation = "CFP" => ud.birth_month # 0)

OrchestratorAsClaimed(c, r) ==
    LET expected == Contributing(c.uds) IN
    /\ ~HasRaised(r)
    /\ Len(r.requirements) = Len(expected)
    /\ \A i \in 1..Len(expected) :
            /\ IsResult(r.requirements[i])
            /\ r.requirements[i].designation = expected[i].designation

\* C14: for every list of assignments, calculate_designation_requirements
\* returns, without raising, exactly one result per assignment whose code has
\* a registered calculator and valid anchor data, in the order of the input
\* list; assignments with an unregistered code (CLE) or a null calculator
\* result contribute no entry, so the output's codes are a subsequence of the
\* input's.
C14_OrchestratorOutput ==
    call.fn = "calculate_designation_requirements" =>
        OrchestratorAsClaimed(call, result)

\* the same, for the lists without an assignment created on a February 29
C14_OrchestratorOutputOffLeapDay ==
    ( /\ call.fn = "calculate_designation_requirements"
      /\ \A i \in 1..Len(call.uds) :
            <<call.uds[i].created_at[2], call.uds[i].created_at[3]>> # <<2, 29>> ) =>
        OrchestratorAsClaimed(call, result)

\* a list in which an entry is skipped between two that are kept
C14_SkipsInTheMiddle ==
    /\ call.fn = "calculate_designation_requirements"
    /\ Len(call.uds) = 3
    /\ call.uds[1].designation = "EA"
    /\ call.uds[2].designation = "CLE"
    /\ call.uds[3].designation = "CPA"
    /\ ~HasRaised(result)
    /\ Len(result.requirements) = 2
    /\ result.requirements[1].designation = "EA"
    /\ result.requirements[2].designation = "CPA"

----------------------------------------------------------------------------
(* C15 *)

EthicsCalculatorNames ==
    {"calculate_cfp_requirements", "calculate_ea_requirements",
     "calculate_iar_requirements"}

\* the hours of the user's in-period records whose category or title
\* contains "ethics", whatever the case of the letters
EthicsSum(c, r) ==
    HoursOf(EthicsRows(OwnInWindow(c.user, r.period_start, r.period_end)))

\* C15: for CFP, EA and IAR, the reported ethics_earned equals the sum of
\* hours over the in-period records whose category or title contains the
\* substring "ethics" case-insensitively, for every record set, also when
\* that sum exceeds ethics_required.
C15_EthicsEarnedIsSum ==
    [][(Returned /\ call'.fn \in EthicsCalculatorNames) =>
            result'.ethics_earned = EthicsSum(call', result')]_vars

\* the same as long as the sum does not exceed ethics_required; above it
\* the reported value is ethics_required
C15_EthicsEarnedIsCappedSum ==
    [][(Returned /\ call'.fn \in EthicsCalculatorNames) =>
            result'.ethics_earned =
                (IF EthicsSum(call', result') < result'.ethics_required
                 THEN EthicsSum(call', result') ELSE result'.ethics_required)]_vars

----------------------------------------------------------------------------
(* C16 *)

Within(r, a, b) ==
    /\ ToOrdinal(a) <= ToOrdinal(r.date_completed)
    /\ ToOrdinal(r.date_completed) <= ToOrdinal(b)

\* a calculator returns for the arguments and on the day of the call before,
\* with one more CE record in the store: the record add_ce stored in between
CallsAroundOneAdd ==
    /\ call'.fn = call.fn
    /\ call'.user = call.user
    /\ call'.ud = call.ud
    /\ call'.at = call.at
    /\ call'.rows = call.rows + 1
    /\ IsResult(result)
    /\ IsResult(result')

\* what the claim says of the ethics calculators' results before and after
\* record r of the user was stored
EthicsDoubleCounted(r, before, after) ==
    Within(r, before.period_start, before.period_end) =>
        /\ after.total_earned = before.total_earned + r.hours
        /\ (IsEthicsText(r) /\ r.hours >= 0) =>
                /\ after.ethics_remaining =
                        (IF before.ethics_remaining - r.hours > 0
                         THEN before.ethics_remaining - r.hours ELSE 0)
                /\ before.ethics_earned + r.hours <= before.ethics_required =>
                        after.ethics_earned = before.ethics_earned + r.hours
        /\ ~IsEthicsText(r) =>
                /\ after.ethics_earned = before.ethics_earned
                /\ after.ethics_remaining = before.ethics_remaining
                /\ after.ethics_percentage = before.ethics_percentage

\* the same for the NAPFA results, which go by the flags
NapfaByFlags(r, before, after) ==
    Within(r, before.cycle_start, before.cycle_end) =>
        /\ after.total_earned = before.total_earned + r.hours
        /\ after.napfa_approved_earned =
                before.napfa_approved_earned
                    + (IF r.is_napfa_approved THEN r.hours ELSE 0)
        /\ after.ethics_completed <=> (before.ethics_completed \/ r.is_ethics_course)

\* C16: sub-category hours are counted twice and selected by the designated
\* predicate only. Adding one in-period record of h hours whose category or
\* title contains "ethics" raises the total hours and the ethics hours of
\* CFP, EA and IAR by h, whatever its is_ethics_course flag; a record with
\* is_ethics_course set but without "ethics" in its text adds nothing to
\* their ethics hours; NAPFA's ethics_completed and NAPFA-approved hours go
\* by the is_ethics_course and is_napfa_approved flags, never by the text.
C16_DoubleCountedByPredicate ==
    [][(CallsAroundOneAdd /\ records[Len(records)].user_id = call.user) =>
            /\ call.fn \in EthicsCalculatorNames =>
                    EthicsDoubleCounted(records[Len(records)], result, result')
            /\ call.fn = "calculate_napfa_requirements" =>
                    NapfaByFlags(records[Len(records)], result, result')]_vars

\* an IAR result after a record with "ethics" in its title and no flag and a
\* flagged record without it: the first counts for total and ethics, the
\* second for the total only
C16_Witness ==
    /\ call.fn = "calculate_iar_requirements"
    /\ IsResult(result)
    /\ Len(records) = 2
    /\ \E i, j \in 1..2 :
        /\ IsEthicsText(records[i]) /\ ~records[i].is_ethics_course
        /\ ~IsEthicsText(records[j]) /\ records[j].is_ethics_course
        /\ records[i].user_id = call.user /\ records[j].user_id = call.user
        /\ result.total_earned = records[i].hours + records[j].hours
        /\ result.ethics_earned = records[i].hours
        /\ result.ethics_remaining = 6 - records[i].hours
        /\ records[j].hours > 0

----------------------------------------------------------------------------
(* C17 *)

\* this step is a query or the return of a calculator, of the orchestrator
\* or of the dashboard
CallStep ==
    \/ call' # call \/ result' # result
    \/ \E t \in (pending \ pending') \cup (pending' \ pending) :
            t.request \in {"calculate_designation_requirements", "dashboard"}

\* this step returns from a repetition of the previous call (same function,
\* same arguments, same session) when no midnight has passed since the
\* previous call began and all records stored since then belong to other
\* users
RepeatedOverOthersRecords ==
    /\ call.fn # ""
    /\ [call' EXCEPT !.rows = 0, !.reads = 0, !.since = 0]
            = [call EXCEPT !.rows = 0, !.reads = 0, !.since = 0]
    /\ call.began = call.at
    /\ call'.rows >= call.since
    /\ \A i \in (call.since + 1)..call'.rows : records[i].user_id # call.user

\* C17: every call of a calculator, of the orchestrator and of the dashboard
\* leaves the stored users, assignments and CE records unchanged, and a call
\* repeated on the same day with the same arguments returns the same value as
\* before whenever the records stored in between all belong to other users
\* (in particular when nothing was stored in between).
C17_ReadOnlyAndOwnData ==
    [][/\ CallStep => UNCHANGED <<users, designations, records>>
       /\ (CallStep /\ RepeatedOverOthersRecords) =>
                result' = result /\ call'.reads = call.reads]_vars

\* the dashboard of user 1 shows a record and a requirement, and a record of
\* user 2 was stored between its queries
C17_Witness ==
    /\ call.fn = "dashboard" /\ call.user = 1
    /\ "ce_records" \in DOMAIN result
    /\ Len(result.ce_records) = 1
    /\ Len(result.designation_requirements) >= 1
    /\ call.since = 1 /\ call.rows = 2
    /\ records[2].user_id = 2
    /\ call.began = call.at

----------------------------------------------------------------------------
(* C18 *)

\* user uid holds an assignment of the code in the given table
Holds(table, uid, code) ==
    \E i \in 1..Len(table) :
        table[i].user_id = uid /\ table[i].designation = code

NoDuplicateAssignments ==
    \A i, j \in 1..Len(designations) :
        (/\ designations[i].user_id = designations[j].user_id
         /\ designations[i].designation = designations[j].designation) => i = j

\* every row this step stored has an allowed code that its user did not hold
\* before the step
StoresOnlyNewAllowed ==
    \A j \in 1..Len(designations') :
        (\A i \in 1..Len(designations) : designations[i] # designations'[j]) =>
            /\ designations'[j].designation \in Codes
            /\ ~Holds(designations, designations'[j].user_id,
                      designations'[j].designation)

\* an add request starts a transaction only for an allowed code its user does
\* not hold, and starting one changes no table; a waiting add whose code its
\* user holds by the time of the commit is dropped and changes no table
RejectsHeldAndUnknown ==
    /\ \A t \in pending' \ pending :
          /\ UNCHANGED <<users, designations>>
          /\ t.request = "add" =>
                /\ t.rows[1].designation \in Codes
                /\ ~Holds(designations, t.user.id, t.rows[1].designation)
    /\ \A t \in pending \ pending' :
          (/\ t.request = "add"
           /\ Holds(designations, t.user.id, t.rows[1].designation)) =>
                UNCHANGED <<users, designations>>

\* C18: after any interleaving of register, manage_designations add (each
\* validating first and committing later) and manage_designations remove, no
\* user holds two assignments with the same designation code; a step stores
\* rows only for allowed codes their user did not hold; an add for a held code
\* or a code outside ALLOWED_DESIGNATIONS leaves the assignments unchanged.
C18_UniqueAssignments ==
    [](NoDuplicateAssignments) /\ [][StoresOnlyNewAllowed /\ RejectsHeldAndUnknown]_vars

\* two add requests of one user for one code ran at the same time: the first
\* has committed, the second still waits for its commit
C18_Witness ==
    \E t \in pending :
        /\ t.request = "add"
        /\ Holds(designations, t.user.id, t.rows[1].designation)

\* a registration whose form lists one code twice waits for its commit
C18_WitnessRegisterTwice ==
    \E t \in pending :
        /\ t.request = "register"
        /\ Len(t.rows) = 2
        /\ t.rows[1].designation = t.rows[2].designation

----------------------------------------------------------------------------
(* C19 *)

\* birth_month is set exactly on CFP rows and then lies in 1..12; state is set
\* exactly on CPA rows
AnchorFieldsPresent(ud) ==
    /\ ud.birth_month # 0 <=> ud.designation = "CFP"
    /\ ud.birth_month # 0 => ud.birth_month \in 1..12
    /\ ud.state # <<>> <=> ud.designation = "CPA"

\* every character of the text is one of the letters A..Z
UppercaseLetters(s) == \A k \in 1..Len(s) : s[k] \in DOMAIN LowerMap

\* the rows the transactions started by this step will insert
RowsStarted ==
    UNION {{t.rows[k] : k \in 1..Len(t.rows)} :
                t \in {u \in pending' \ pending : u.request \in {"register", "add"}}}

\* C19: after any sequence of register and manage_designations add/remove
\* requests every stored assignment has birth_month set, to an integer in
\* 1..12, if and only if its designation is CFP, and state set, to two
\* uppercase letters, if and only if its designation is CPA; no request starts
\* the insertion of a row that is otherwise.
C19_AnchorFields ==
    /\ [](\A i \in 1..Len(designations) :
            /\ AnchorFieldsPresent(designations[i])
            /\ designations[i].state # <<>> =>
                    /\ Len(designations[i].state) = 2
                    /\ UppercaseLetters(designations[i].state))
    /\ [][\A ud \in RowsStarted :
            /\ AnchorFieldsPresent(ud)
            /\ ud.state # <<>> => Len(ud.state) = 2 /\ UppercaseLetters(ud.state)]_vars

\* the same without the length of the state: the fields are present exactly
\* on the rows of their designation, the birth month lies in 1..12 and the
\* state is made of uppercase letters
C19_AnchorFieldsPresence ==
    /\ [](\A i \in 1..Len(designations) :
            /\ AnchorFieldsPresent(designations[i])
            /\ UppercaseLetters(designations[i].state))
    /\ [][\A ud \in RowsStarted :
            AnchorFieldsPresent(ud) /\ UppercaseLetters(ud.state)]_vars

\* a CFP row and a CPA row are stored next to each other
C19_BothStored ==
    /\ \E i \in 1..Len(designations) : designations[i].designation = "CFP"
    /\ \E i \in 1..Len(designations) : designations[i].designation = "CPA"

----------------------------------------------------------------------------
(* C20 *)

\* C20: after any sequence of add_ce, edit_ce, import_ce and import_backup
\* requests every stored CE record has hours above zero.
C20_PositiveHours ==
    \A i \in 1..Len(records) : records[i].hours > 0

\* the two import requests store rows with hours above zero only: the rows an
\* import keeps for its commit, and the rows its commit writes
C20_ImportsStorePositiveHours ==
    [][/\ \A t \in pending' \ pending :
            t.request \in {"import_ce", "import_backup"} =>
                \A k \in 1..Len(t.rows) : t.rows[k].hours > 0
       /\ \A t \in pending \ pending' :
            t.request \in {"import_ce", "import_backup"} =>
                \A i \in (Len(records) + 1)..Len(records') : records'[i].hours > 0]_vars

\* an import has stored two rows
C20_TwoImported ==
    /\ Len(records) = 2
    /\ records[1].title = Text_Tax /\ records[2].title = Text_Ethics
    /\ records[2].date_completed = now

----------------------------------------------------------------------------
(* C21 *)

\* the record with this id exists and belongs to another user than the
\* browser's
Foreign(ce_id) ==
    /\ cookie.user_id # 0
    /\ \E i \in 1..Len(records) :
            records[i].id = ce_id /\ records[i].user_id # cookie.user_id

\* every record this step removed or changed belonged to the user of a
\* delete_ce or edit_ce request whose commit the step is, and the request was
\* answered as successful
OnlyOwnerChanges ==
    \A i \in 1..Len(records) :
        (\A j \in 1..Len(records') : records'[j] # records[i]) =>
            \E t \in pending \ pending' :
                /\ t.request \in {"delete", "edit"}
                /\ t.session.user_id = records[i].user_id
                /\ response'.flash \in {"CE record deleted successfully!",
                                        "CE record updated successfully!"}

\* a record that stays in the table keeps its user_id
OwnerNeverChanges ==
    \A i \in 1..Len(records), j \in 1..Len(records') :
        records'[j].id = records[i].id => records'[j].user_id = records[i].user_id

\* a delete_ce or edit_ce request for a record of another user is answered with
\* the permission message, starts no transaction and leaves the table as it is
ForeignTargetRefused ==
    \A ce_id \in 1..MaxRecords :
        Foreign(ce_id) =>
            /\ (DeleteCE(cookie, ce_id) /\ Answered(DeleteCEAnswer(cookie, ce_id))) =>
                    /\ response'.flash = "You do not have permission to delete this record."
                    /\ UNCHANGED <<records, pending>>
            /\ \A form \in RecordForms :
                (EditCE(cookie, ce_id, form)
                    /\ Answered(EditCEAnswer(cookie, ce_id, form))) =>
                    /\ response'.flash = "You do not have permission to edit this record."
                    /\ UNCHANGED <<records, pending>>

\* C21: a CE record is deleted or modified only by a delete_ce or edit_ce
\* request whose session user owns the record; a request for a record of
\* another user is answered with a permission error and leaves every record
\* unchanged; a record's user_id never changes.
C21_OnlyOwnerWrites ==
    [][OnlyOwnerChanges /\ OwnerNeverChanges /\ ForeignTargetRefused]_vars

\* the same for the requests alone: a request for a record that is another
\* user's when the request reads it is refused, and no step changes the
\* user_id of a record
C21_ForeignRefusedAtRequest ==
    [][OwnerNeverChanges /\ ForeignTargetRefused]_vars

\* bob's browser was refused the deletion of ann's record
C21_Refused ==
    /\ cookie.user_id = 2
    /\ response.flash = "You do not have permission to delete this record."
    /\ \E i \in 1..Len(records) : records[i].user_id = 1

----------------------------------------------------------------------------
(* C22 *)

\* the data of the application
Data == <<users, designations, records, pending>>

\* the answer sends the browser to the login page
ToLogin(answer) == answer.kind = "redirect" /\ answer.to = "auth.login"

\* the session gets a user_id only from a login form that names an account
\* and carries its password, and keeps it until the session is cleared
UserIdOnlyByLogin ==
    /\ cookie.user_id = 0 /\ cookie'.user_id # 0 =>
        /\ response'.flash = "Login successful!"
        /\ \E form \in SessionLoginForms : \E i \in 1..Len(users) :
              /\ users[i].username = form.username
              /\ check_password_hash(users[i].password_hash, form.password)
              /\ users[i].id = cookie'.user_id
    /\ cookie.user_id # 0 /\ cookie'.user_id # cookie.user_id => cookie' = NoSession

\* a step answered as a logout leaves a session without user_id
LogoutClears ==
    response'.flash = "You have been logged out." /\ response'.to = "auth.login"
        => cookie' = NoSession

\* without a user_id in the session, each of the eleven requests is answered
\* with the redirect to the login page and leaves the data as they are
RefusedWithoutUserId ==
    cookie.user_id = 0 =>
        /\ Dashboard(cookie, <<>>) /\ Answered(DashboardAnswer(cookie, <<>>))
            => ToLogin(response') /\ UNCHANGED Data
        /\ \A form \in SessionRecordForms :
            /\ AddCE(cookie, form) /\ Answered(AddCEAnswer(cookie, form))
                => ToLogin(response') /\ UNCHANGED Data
            /\ EditCE(cookie, 1, form) /\ Answered(EditCEAnswer(cookie, 1, form))
                => ToLogin(response') /\ UNCHANGED Data
        /\ DeleteCE(cookie, 1) /\ Answered(DeleteCEAnswer(cookie, 1))
            => ToLogin(response') /\ UNCHANGED Data
        /\ ImportCE(cookie, SessionCsvFile)
                /\ Answered(ImportCEAnswer(cookie, SessionCsvFile))
            => ToLogin(response') /\ UNCHANGED Data
        /\ ImportBackup(cookie, SessionBackupFile)
                /\ Answered(ImportBackupAnswer(cookie, SessionBackupFile))
            => ToLogin(response') /\ UNCHANGED Data
        /\ ExportCE(cookie, <<>>) /\ Answered(ExportCEAnswer(cookie, <<>>))
            => ToLogin(response') /\ UNCHANGED Data
        /\ ExportBackup(cookie) /\ Answered(ExportBackupAnswer(cookie))
            => ToLogin(response') /\ UNCHANGED Data
        /\ Analytics(cookie) /\ Answered(AnalyticsAnswer(cookie))
            => ToLogin(response') /\ UNCHANGED Data
        /\ \A form \in SessionProfileForms :
            Profile(cookie, form) /\ Answered(ProfileAnswer(cookie, form))
                => ToLogin(response') /\ UNCHANGED Data
        /\ \A form \in SessionAddForms :
            ManageDesignationsAdd(cookie, form)
                    /\ Answered(ManageDesignationsAddAnswer(cookie, form))
                => ToLogin(response') /\ UNCHANGED Data
        /\ ManageDesignationsRemove(cookie, 1)
                /\ Answered(ManageDesignationsRemoveAnswer(cookie, 1))
            => ToLogin(response') /\ UNCHANGED Data

\* the user a waiting transaction was accepted for
Requester(t) == IF "session" \in DOMAIN t THEN t.session.user_id ELSE t.user.id

\* while the session has no user_id the data change only by a query or the
\* commit of a request that was accepted earlier, from a session with a
\* user_id
OnlyCommitsWithoutUserId ==
    cookie.user_id = 0 /\ cookie'.user_id = 0 /\ Data' # Data =>
        /\ pending \ pending' # {}
        /\ \A t \in pending \ pending' : Requester(t) # 0
        /\ \A t \in pending' \ pending : \E s \in pending \ pending' : s.nr = t.nr

\* C22: the session carries a user_id only after a login POST with an existing
\* username and its password, and no longer after logout; without a user_id
\* every request to dashboard, add_ce, edit_ce, delete_ce, import_ce,
\* import_backup, export_ce, export_backup, analytics, profile and
\* manage_designations is redirected to the login page and changes no data,
\* also after a login followed by a logout
C22_LoginRequired ==
    [][/\ UserIdOnlyByLogin
       /\ LogoutClears
       /\ RefusedWithoutUserId
       /\ OnlyCommitsWithoutUserId]_vars

\* after a login, work and a logout, a request has been sent to the login page
C22_Witness ==
    /\ cookie = NoSession
    /\ response = Redirect("auth.login", "Please log in to add CE records.")
    /\ records # <<>>
    /\ designations # <<>>

----------------------------------------------------------------------------
(* C23 *)

\* no two users share a username, no two users share an email
NoSharedNames ==
    \A i, j \in 1..Len(users) :
        i # j => /\ users[i].username # users[j].username
                 /\ users[i].email # users[j].email

\* the username or the email of the form belongs to a user
Taken(form) ==
    \E i \in 1..Len(users) :
        \/ users[i].username = Strip(form.username)
        \/ users[i].email = Strip(form.email)

\* a registration for a taken username or email stores nothing and never
\* comes to its commit: it ends at the query that finds the name or the
\* address, or, when they were taken after its queries, at the commit
TakenRegistrationStoresNothing ==
    /\ \A session \in AccountSessions, form \in SignupForms :
            Taken(form) /\ Register(session, form)
                    /\ Answered(RegisterAnswer(session, form))
                => /\ UNCHANGED <<users, designations>>
                   /\ \A t \in pending' \ pending : t.at = "email"
                   /\ response'.kind # "redirect" \/ session.user_id # 0
    /\ \A t \in pending :
            /\ t.request = "register" /\ t.at = "email"
            /\ \E i \in 1..Len(users) : users[i].email = t.user.email
            /\ RegisterEmail(t) /\ Answered(RegisterEmailAnswer(t))
            => /\ UNCHANGED <<users, designations>>
               /\ pending' = pending \ {t}
               /\ response' = Render("register.html", "Email already exists.")
    /\ \A t \in pending \ pending' :
            /\ t.request = "register" /\ t.at = "commit"
            /\ \E i \in 1..Len(users) :
                    \/ users[i].username = t.user.username
                    \/ users[i].email = t.user.email
            => UNCHANGED <<users, designations>> /\ response' = Abort("500")
    /\ \A j \in 1..Len(users') :
            (\A i \in 1..Len(users) : users[i].id # users'[j].id)
            => \A i \in 1..Len(users) :
                    /\ users[i].username # users'[j].username
                    /\ users[i].email # users'[j].email

\* an update_email to the address of another account leaves the email as it
\* is: the request ends at the query that finds the holder of the address,
\* or, when the address was taken after that query, at the commit
TakenAddressNotStored ==
    /\ \A t \in pending :
            /\ t.request = "update_email" /\ t.at = "existing"
            /\ \E j \in 1..Len(users) :
                    users[j].id # t.user.id /\ users[j].email = t.new_email
            /\ ProfileEmail(t) /\ Answered(ProfileEmailAnswer(t))
            => /\ UNCHANGED users
               /\ pending' = pending \ {t}
               /\ response'.flash = "That email is already in use by another account."
    /\ \A t \in pending \ pending' :
            /\ t.request = "update_email" /\ t.at = "commit"
            /\ \E j \in 1..Len(users) :
                    users[j].id # t.user.id /\ users[j].email = t.new_email
            => UNCHANGED users /\ response' = Abort("500")
    /\ \A i \in 1..Len(users), j \in 1..Len(users') :
            /\ users[i].id = users'[j].id
            /\ users[i].email # users'[j].email
            => \A k \in 1..Len(users) : users[k].email # users'[j].email

\* C23: after any sequence of register and update_email requests no two users
\* share a username or an email; a registration whose username or email is
\* taken creates no user and no designation assignment, and an update_email to
\* an address of another account leaves the email unchanged
C23_UniqueNames ==
    /\ []NoSharedNames
    /\ [][TakenRegistrationStoresNothing /\ TakenAddressNotStored]_vars

\* with two accounts stored, an address change to the other's address has been
\* refused
C23_Witness ==
    /\ Len(users) >= 2
    /\ response.flash = "That email is already in use by another account."

\* a registration that was accepted while its address was free has been
\* refused at its commit, the address being taken by then
C23_WitnessRace ==
    /\ response = Abort("500")
    /\ Len(users) >= 2

----------------------------------------------------------------------------
(* C24 *)

\* C24: a registration form without the acknowledgement disclaimer_ack is
\* answered with 'You must acknowledge the disclaimer to register' and starts
\* no registration, also when every other field is valid (stated for the
\* forms whose other fields are valid)
C24_DisclaimerRequired ==
    [][\A session \in AccountSessions, form \in SignupForms :
            /\ session.user_id = 0
            /\ form.disclaimer_ack # "on"
            /\ RegisterErrors(form) = {} /\ ~Taken(form)
            /\ Register(session, form) /\ Answered(RegisterAnswer(session, form))
            => /\ pending' = pending
               /\ response'.flash = "You must acknowledge the disclaimer to register"]_vars

\* C24, second half: a stored user comes from a form with the acknowledgement
C24_UsersAcknowledged ==
    [][\A session \in AccountSessions, form \in SignupForms :
            /\ Register(session, form) /\ Answered(RegisterAnswer(session, form))
            /\ pending' # pending
            => form.disclaimer_ack = "on"]_vars

----------------------------------------------------------------------------
(* C25 *)

\* the reset_password requests whose commit this step runs
ResetsCommitted == {t \in pending \ pending' : t.request = "reset_password"}

\* reset_password accepts a form only with a token that is stored on a user
\* and has not expired when the request reads the user
AcceptedWhileValid ==
    \A t \in pending' \ pending :
        t.request = "reset_password" =>
            /\ t.token \in issued
            /\ \E i \in 1..Len(users) :
                    /\ users[i].id = t.user.id
                    /\ users[i].reset_token = t.token
                    /\ ~Earlier(users[i].reset_token_expiry, UtcNow)
            /\ \E form \in ResetForms :
                    /\ form.new_password = form.confirm_password
                    /\ t.user.password_hash = generate_password_hash(form.new_password)

\* a password changes only by the commit of an accepted reset; the step
\* clears token and expiry, stores the hash of the posted password and is
\* answered as a success
ChangedOnlyByReset ==
    \A i \in 1..Len(users) :
        users'[i].password_hash # users[i].password_hash =>
            /\ \E t \in ResetsCommitted :
                    /\ t.user.id = users[i].id
                    /\ users'[i].password_hash = t.user.password_hash
            /\ users'[i].reset_token = <<>>
            /\ users'[i].reset_token_expiry = NoDate
            /\ response' = Redirect("auth.login", "Your password has been reset! Please log in.")

\* a reset changes the password only while its token is stored on the user:
\* a token that has changed a password, or that a newer token has replaced,
\* changes none
ResetUsesStoredToken ==
    \A t \in ResetsCommitted :
        \E i \in 1..Len(users) :
            users[i].id = t.user.id /\ users[i].reset_token = t.token

\* a token is stored only when uuid4 returned it, with the expiry one hour
\* after the request drew it, and uuid4 never returns a value twice
StoredWhenIssued ==
    /\ \A t \in pending' \ pending :
            t.request = "forgot_password" =>
                /\ t.token \notin issued
                /\ issued' = issued \cup {t.token}
                /\ t.user.reset_token = t.token
                /\ t.user.reset_token_expiry = [UtcNow EXCEPT ![4] = @ + HourTicks]
    /\ \A i \in 1..Len(users) :
            users'[i].reset_token # users[i].reset_token /\ users'[i].reset_token # <<>> =>
                \E t \in pending \ pending' :
                    /\ t.request = "forgot_password"
                    /\ t.user.id = users[i].id
                    /\ users'[i].reset_token = t.token
                    /\ users'[i].reset_token_expiry = t.user.reset_token_expiry

\* a reset with a token that no user holds or whose hour has passed, and a
\* forgot_password for an address of no account, start nothing, change no
\* user and are answered as such
UnknownChangesNothing ==
    /\ \A token \in Tokens \cup {Token(0)}, form \in ResetForms :
            /\ \/ ~\E i \in 1..Len(users) : users[i].reset_token = token
               \/ \E i \in 1..Len(users) :
                    /\ users[i].reset_token = token
                    /\ users[i].reset_token_expiry[4] < clock
            /\ ResetPassword(token, form)
            /\ response' = ResetPasswordAnswer(token, form)
            => /\ UNCHANGED <<users, pending>>
               /\ response'.flash = "This reset link is invalid or has expired."
    /\ \A form \in ForgotForms, token \in Tokens :
            /\ ~\E i \in 1..Len(users) : users[i].email = Strip(form.email)
            /\ ForgotPassword(cookie, form, token)
            /\ response' = ForgotPasswordAnswer(cookie, form, token)
            => UNCHANGED <<users, pending>>

\* a login is accepted exactly with the password of the stored hash: after a
\* reset that is the new password
LoginWithStoredPassword ==
    \A form \in TokenLoginForms :
        cookie.user_id = 0 /\ Login(form) =>
            \A i \in 1..Len(users) :
                users[i].username = form.username =>
                    (cookie'.user_id = users[i].id
                        <=> users[i].password_hash = generate_password_hash(form.password))

\* the token of a committed reset is on no user afterwards
UsedTokenGone ==
    \A t \in ResetsCommitted :
        \A j \in 1..Len(users) : users'[j].reset_token # t.token

\* C25: a reset token changes a password at most once and only while valid:
\* reset_password succeeds only for a token stored on a user whose expiry, one
\* hour after the issue, has not passed; a success clears token and expiry, so
\* a later request with the token is refused; login then succeeds with the new
\* password and fails with the old one; an unknown token and a forgot_password
\* for an unknown address change no user
C25_ResetOnceWhileValid ==
    [][/\ AcceptedWhileValid
       /\ ChangedOnlyByReset
       /\ ResetUsesStoredToken
       /\ StoredWhenIssued
       /\ UsedTokenGone
       /\ UnknownChangesNothing
       /\ LoginWithStoredPassword]_vars

\* the same without the token being stored at the commit: a form is accepted
\* only while its token is valid, a password changes only by an accepted
\* reset, and the rest of C25
C25_ResetAcceptedWhileValid ==
    [][/\ AcceptedWhileValid
       /\ ChangedOnlyByReset
       /\ StoredWhenIssued
       /\ UsedTokenGone
       /\ UnknownChangesNothing
       /\ LoginWithStoredPassword]_vars

----------------------------------------------------------------------------
(* C26 *)

\* what the duplicate query of the imports compares
Key(r) == <<r.title, r.date_completed, r.hours>>

\* the imports whose commit the step is
ImportsCommitted ==
    {t \in pending \ pending' :
        t.request \in {"import_ce", "import_backup"} /\ t.at = "commit"}

\* the step is the commit of an import, answered with its counters
ImportStep == ImportsCommitted # {} /\ "imported" \in DOMAIN response'

\* the records an import creates belong to its session user and repeat the
\* key of no record of that user that is stored before them, be it from
\* before the import or from an earlier row of the file
NoDuplicateCreated ==
    \A t \in ImportsCommitted :
        /\ Len(records') >= Len(records)
        /\ SubSeq(records', 1, Len(records)) = records
        /\ \A i \in (Len(records) + 1)..Len(records') :
                /\ records'[i].user_id = t.session.user_id
                /\ \A j \in 1..(i - 1) :
                        records'[j].user_id = t.session.user_id
                            => Key(records'[j]) # Key(records'[i])

\* the entries of a file that repeat a stored record of the user
Repeats(entries, user_id) ==
    {k \in 1..Len(entries) :
        /\ entries[k].hours \in DOMAIN FloatTable
        /\ \E i \in 1..Len(records) :
            /\ records[i].user_id = user_id
            /\ Key(records[i]) = <<Strip(entries[k].title),
                                   ImportedDate(entries[k].date_completed),
                                   FloatTable[entries[k].hours]>>}

\* for every list of entries the session user can send now: the entries that
\* repeat a stored record are within the skipped count, and sending the list
\* again right after creates no record and leaves the table as it is
SkippedAndIdempotent ==
    cookie.user_id # 0 =>
        \A entries \in EntryLists :
            LET once == ImportAlone(records, entries, cookie.user_id, FALSE)
            IN  /\ once.skipped >= Cardinality(Repeats(entries, cookie.user_id))
                /\ ImportAlone(once.table, entries, cookie.user_id, FALSE).table
                        = once.table

\* C26: import_ce and import_backup never create a record whose title, date
\* and hours equal those of a record already stored for the session user, one
\* created by an earlier row of the same file included, and count such rows as
\* skipped; importing the same file again on the same day creates no record
C26_NoDuplicateImports ==
    /\ []SkippedAndIdempotent
    /\ [][NoDuplicateCreated]_vars

\* the record a pass of the row loop keeps for the commit repeats the key of
\* no record of its user that the table holds when the pass reads it, and of
\* no row the import kept before
NoDuplicateKept ==
    \A t \in pending \ pending', u \in pending' \ pending :
        /\ t.request \in {"import_ce", "import_backup"}
        /\ u.nr = t.nr /\ Len(u.rows) > Len(t.rows)
        => LET r == u.rows[Len(u.rows)]
           IN  /\ r.user_id = t.session.user_id
               /\ \A i \in 1..Len(records) :
                        records[i].user_id = t.session.user_id
                            => Key(records[i]) # Key(r)
               /\ \A m \in 1..Len(t.rows) : Key(t.rows[m]) # Key(r)

\* the same for the table as each pass reads it: an import keeps no row
\* that repeats a record stored at that time
C26_NoDuplicateAtRequest ==
    /\ []SkippedAndIdempotent
    /\ [][NoDuplicateKept]_vars

\* a file of two entries has been imported a second time: nothing imported,
\* both skipped, the two records of the first time stored
C26_SecondImportSkipped ==
    /\ "imported" \in DOMAIN response
    /\ response.imported = 0 /\ response.skipped = 2
    /\ Len(records) = 2
    /\ \A i \in 1..Len(records) : records[i].user_id = cookie.user_id
    /\ Key(records[1]) # Key(records[2])

----------------------------------------------------------------------------
(* C27 *)

\* the row is blank: no title and no hours
Blank(row) == Strip(row.title) = <<>> /\ row.hours = ""

\* the row is one that import_ce skips when the table is as given
Skipped(table, row, user_id) ==
    /\ ~Blank(row)
    /\ \/ Strip(row.title) = <<>>
       \/ row.hours \notin DOMAIN FloatTable
       \/ FloatTable[row.hours] <= 0
       \/ \E i \in 1..Len(table) :
            /\ table[i].user_id = user_id
            /\ Key(table[i]) = <<Strip(row.title), ImportedDate(row.date_completed),
                                 FloatTable[row.hours]>>

\* the pass of the row loop of import_ce t over its next row puts the row in
\* one class: blank and passed over, skipped and counted as skipped, or
\* imported, counted and kept as one new record of the session user, with
\* today's date when the row has no date or one that is none; the row is
\* judged against the table as the pass reads it and the rows kept before
RowClassified(t) ==
    \E u \in pending' :
        /\ u.nr = t.nr /\ u.request = "import_ce"
        /\ u.left = Tail(t.left)
        /\ LET row == Head(t.left)
               table == records \o t.rows
           IN  IF Blank(row)
               THEN u.tally = [t.tally EXCEPT !.blank = @ + 1] /\ u.rows = t.rows
               ELSE IF Skipped(table, row, t.session.user_id)
               THEN u.tally = [t.tally EXCEPT !.skipped = @ + 1] /\ u.rows = t.rows
               ELSE /\ u.tally = [t.tally EXCEPT !.imported = @ + 1]
                    /\ Len(u.rows) = Len(t.rows) + 1
                    /\ SubSeq(u.rows, 1, Len(t.rows)) = t.rows
                    /\ u.rows[Len(u.rows)].user_id = t.session.user_id
                    /\ u.rows[Len(u.rows)].title = Strip(row.title)
                    /\ u.rows[Len(u.rows)].date_completed # NoDate
                    /\ \/ row.date_completed = NoDate
                       \/ ~ValidDate(row.date_completed[1], row.date_completed[2],
                                     row.date_completed[3])
                       => u.rows[Len(u.rows)].date_completed = now

\* the import_ce requests whose row loop reads a row in this step
RowsRead ==
    {t \in pending \ pending' : t.request = "import_ce" /\ t.at = "rows"}

\* the count an import reports is the number of records its commit creates,
\* which are the rows it kept; imported + skipped is the number of rows of
\* the file that are not blank; a created record has a date; a CSV without a
\* title or hours column creates nothing
CountsMatchStore ==
    /\ ImportStep =>
        /\ response'.imported = Len(records') - Len(records)
        /\ \A i \in (Len(records) + 1)..Len(records') :
                records'[i].date_completed # NoDate
        /\ \A t \in ImportsCommitted :
                /\ response'.imported = Len(t.rows)
                /\ t.request = "import_ce" =>
                        response'.imported + response'.skipped
                            = Len(t.entries)
                                - Cardinality({k \in 1..Len(t.entries) :
                                                    Blank(t.entries[k])})
    /\ response'.flash = "CSV must have at least Title and Hours columns."
        => records' = records /\ pending' = pending

\* C27: for every CSV that import_ce accepts, each row is blank (no title and
\* no hours: passed over, not counted), skipped (no title, hours that are not
\* a number or not above zero, or a duplicate) or imported (one new record of
\* the session user); the imported count is the number of records created,
\* imported + skipped is the number of rows that are not blank, a row with an
\* empty or unparseable date is imported with today's date, and a CSV without
\* a title or hours column creates no record
C27_RowsCounted ==
    [][/\ \A t \in RowsRead : RowClassified(t)
       /\ CountsMatchStore]_vars

\* the same for the rows that have a field for every column of the header
C27_FullRowsCounted ==
    [][/\ \A t \in RowsRead : Head(t.left).none = {} => RowClassified(t)
       /\ CountsMatchStore]_vars

\* import_ce has read a line that ends before the last column of the header
\* and has answered with the error message; nothing is stored
C27_CutLineRaised ==
    /\ response.flash = "Error importing CSV"
    /\ pending = {}
    /\ records = <<>>

\* import_ce has imported a row without a date with today's date and has
\* skipped the other row of the file
C27_Imported ==
    /\ "imported" \in DOMAIN response
    /\ response.flash = "Successfully imported"
    /\ response.imported = 1 /\ response.skipped = 1
    /\ Len(records) = 1
    /\ records[1].title = Text_Ethics /\ records[1].date_completed = now

----------------------------------------------------------------------------
(* C28 *)

\* C28: for CEP and ECA with any anchor date A and any current date N >= A, a
\* returned period holds the current date: period_start <= N <= period_end,
\* on the 2-year anniversaries of A too
C28_TodayInsidePeriod ==
    ( /\ call.fn \in CepiCalculatorNames
      /\ DateLE(AnchorOf(call), call.at)
      /\ IsResult(result) ) =>
        /\ DateLE(result.period_start, call.at)
        /\ DateLE(call.at, result.period_end)

\* the same, off the days on which the elapsed days are a whole number of
\* 2-year spans by the calendar but not by 365.25-day years
C28_TodayInsidePeriodOffAnniversaries ==
    ( /\ call.fn \in CepiCalculatorNames
      /\ DateLE(AnchorOf(call), call.at)
      /\ IsResult(result)
      /\ ~\E k \in 1..NumYears :
            /\ call.at = <<AnchorOf(call)[1] + 2 * k, AnchorOf(call)[2], AnchorOf(call)[3]>>
            /\ PeriodIndex(AnchorOf(call), call.at) < k ) =>
        /\ DateLE(result.period_start, call.at)
        /\ DateLE(call.at, result.period_end)

----------------------------------------------------------------------------
(* C29 *)

\* at least one user has is_admin set
AdminRemains == \E i \in 1..Len(users) : users[i].is_admin

\* a view run for a session that targets its own id ends before its commit
\* and leaves the users as they are
SelfToggleChangesNothing ==
    \A t \in pending :
        (t.session.user_id # 0 /\ t.user_id = t.session.user_id) =>
            /\ t.at = "view"
            /\ ToggleAdmin(t) => users' = users /\ pending' = pending \ {t}

\* a commit run while the session's user still is an admin leaves an admin
AdminRemainsAfterAdmin ==
    \A t \in pending :
        (ToggleAdminCommit(t) /\ AdminRequired(t.session, "")) =>
            \E i \in 1..Len(users') : users'[i].is_admin

\* C29: starting with at least one admin, after any sequence or interleaving
\* of toggle_admin requests let in by a logged-in admin's session (no key) at
\* least one user still has is_admin set, and a request of a logged-in user
\* that targets their own id never changes their is_admin
C29_AdminNeverLost == []AdminRemains /\ [][SelfToggleChangesNothing]_vars

\* the parts that hold: a request on its own id changes nothing, and so does
\* not a view run for a session whose user is an admin at that moment
C29_AdminKeptByAdmins ==
    [][SelfToggleChangesNothing /\ AdminRemainsAfterAdmin]_vars

----------------------------------------------------------------------------
(* C30 *)

\* the calculators of designation_helpers.py that app.py has too
SharedCalculatorNames ==
    {"calculate_cfp_requirements", "calculate_cpa_requirements",
     "calculate_ea_requirements", "calculate_cep_requirements",
     "calculate_eca_requirements"}

\* the name app.py's calculator is recorded with
AppName(calc) ==
    CASE calc = "calculate_cfp_requirements" -> "app.calculate_cfp_requirements"
      [] calc = "calculate_cpa_requirements" -> "app.calculate_cpa_requirements"
      [] calc = "calculate_ea_requirements" -> "app.calculate_ea_requirements"
      [] calc = "calculate_cep_requirements" -> "app.calculate_cep_requirements"
      [] calc = "calculate_eca_requirements" -> "app.calculate_eca_requirements"

\* C30: for every user, assignment, record set and current date, the
\* calculators of app.py for CFP, CPA, EA, CEP, ECA and NAPFA return what
\* their counterparts of designation_helpers.py return: the same fields with
\* the same values, or None both (or the same exception both)
C30_LegacyEquivalent ==
    /\ call.fn \in SharedCalculatorNames =>
            result = AppApplyCalculator(AppName(call.fn), call.who, call.ud)
    /\ \A calc \in SharedCalculatorNames :
            call.fn = AppName(calc) =>
                result = ApplyCalculator(calc, call.who, call.ud, <<>>)
    /\ call.fn = "calculate_napfa_requirements" =>
            result = app_calculate_napfa_requirements(call.who)
    /\ call.fn = "app.calculate_napfa_requirements" =>
            result = calculate_napfa_requirements(call.who, <<>>)

\* app.py's ECA calculator has returned a period cut at the current date, with
\* hours counted in it
C30_Witness ==
    /\ call.fn = "app.calculate_eca_requirements"
    /\ IsResult(result)
    /\ result.period_end = now
    /\ result.total_earned > 0
    /\ result = calculate_eca_requirements(call.who, call.ud, <<>>)

\* app.py's NAPFA calculator has returned a result with approved hours
C30_WitnessNapfa ==
    /\ call.fn = "app.calculate_napfa_requirements"
    /\ IsResult(result)
    /\ result.napfa_approved_earned > 0

============================================================================
